---- MODULE Spec2Model ----
(***************************************************************************)
(* github-org-analyser: the expiring localStorage cache (utils/cache.ts),  *)
(* the settings it shares localStorage with (utils/config.ts) and the      *)
(* cache-first report builds of the tabs (components/*.tsx).               *)
(*                                                                         *)
(* Clock values are epoch SECONDS: every millisecond quantity of the       *)
(* source appears here divided by 1000, so that the day and month          *)
(* cutoffs of the builders stay inside TLC's integers.                     *)
(*                                                                         *)
(* A localStorage item is a text.  A text is modelled by the JSON document *)
(* it spells, [kind |-> "json", doc |-> d], or as unparseable,             *)
(* [kind |-> "garbage"].  A JavaScript Date is JsDate(t); the string       *)
(* Date.prototype.toJSON produces for it is IsoString(t).                  *)
(***************************************************************************)
EXTENDS Integers, Sequences, FiniteSets, TLC

VARIABLES
  now,        \* Date.now(), in seconds
  storage,    \* window.localStorage: key -> text
  lastOp,     \* SpecCache: the last cache call, its arguments and its result
  saved,      \* SpecCache: per (org, type), the live saveToCache call if any
  ops,        \* SpecCache: number of cache calls made
  keyIn,      \* SpecKey: two (org, type) pairs
  keyOut,     \* SpecKey: their cache keys
  input,      \* SpecReport: the fetched data a builder is applied to
  output,     \* SpecReport: what the builder made of it
  pager,      \* SpecPages: a paginated getter, its server and its loop
  apiService, \* App: an API service has been created from a token
  selectedOrg,\* App: the selected organisation, "" for none
  activeTab,  \* App: the visible tab
  comp,       \* per tab: the component's state
  builds      \* every fetchData call made, in order, with its position

cacheVars == <<lastOp, saved, ops, keyIn, keyOut, input, output, pager>>
appVars == <<apiService, selectedOrg, activeTab, comp, builds>>
vars == <<now, storage, lastOp, saved, ops, keyIn, keyOut, input, output, pager,
          apiService, selectedOrg, activeTab, comp, builds>>

(***************************************************************************)
(* Bounds of the model                                                     *)
(***************************************************************************)
MaxTicks == 3        \* SpecCache: clock ticks explored
MaxOps == 3          \* SpecCache: cache calls explored
MaxBuilds == 2       \* Spec: fetchData calls explored
MaxAppTicks == 1     \* Spec: clock ticks explored
MaxOrgTokens == 3    \* SpecKey: organisation names of up to this many tokens
MaxRepos == 2        \* SpecReport: repositories the top-level fetch returns
MaxActive == 3       \* SpecReport: active repositories a loop iterates
MaxBranches == 4     \* SpecReport: non-default branches of a repository
MaxAlerts == 2       \* SpecReport: open Dependabot alerts of a repository
MaxPages == 3        \* SpecPages: pages of a collection the server lists
MaxCalls == 4        \* SpecConfig: calls of utils/config.ts explored

(***************************************************************************)
(* JavaScript values                                                       *)
(***************************************************************************)
JsNull == [type |-> "null"]
JsDate(t) == [type |-> "Date", time |-> t]
IsoString(t) == [type |-> "string", iso |-> t]
JsBoolean(b) == [type |-> "boolean", value |-> b]

\* Date.prototype.toJSON / JSON.stringify of a value that may be a Date
DateToJSON(v) == IF v.type = "Date" THEN IsoString(v.time) ELSE v

\* JSON.stringify of an archive-candidate row: its three dates become strings
InactiveRowToJSON(row) ==
  [row EXCEPT !.lastCommitDate = DateToJSON(@),
              !.lastPRDate = DateToJSON(@),
              !.lastActivity = DateToJSON(@)]

\* JSON.stringify followed by JSON.parse of a report payload.  The only
\* values of a payload that JSON does not carry unchanged are the Date
\* objects of the cleanup report's inactiveRepos rows.
ToJSON(data) ==
  IF "inactiveRepos" \in DOMAIN data
    THEN [data EXCEPT !.inactiveRepos = [i \in DOMAIN @ |-> InactiveRowToJSON(@[i])]]
    ELSE data

\* JSON.stringify: the text spelling the value, the payload of a cache object
\* converted as JSON converts it
JSONstringify(value) ==
  [kind |-> "json",
   doc |-> IF "data" \in DOMAIN value THEN [value EXCEPT !.data = ToJSON(@)] ELSE value]
Garbage == [kind |-> "garbage"]
JSONparseThrows(text) == text.kind # "json"
JSONparse(text) == text.doc

(***************************************************************************)
(* utils/cache.ts                                                          *)
(***************************************************************************)
CACHE_PREFIX == "github-org-analyser"

\* Mutants of getCacheKey: a key that leaves out one of its two arguments
getCacheKey_NoType(orgName, dataType) == CACHE_PREFIX \o "-" \o orgName
getCacheKey_NoOrg(orgName, dataType) == CACHE_PREFIX \o "-" \o dataType

getCacheKey(orgName, dataType) ==
  CACHE_PREFIX \o "-" \o orgName \o "-" \o dataType

\* String.prototype.startsWith
StartsWith(s, prefix) ==
  Len(s) >= Len(prefix) /\ SubSeq(s, 1, Len(prefix)) = prefix

RemoveItem(st, key) == [k \in DOMAIN st \ {key} |-> st[k]]
SetItem(st, key, text) == [k \in DOMAIN st \cup {key} |-> IF k = key THEN text ELSE st[k]]

\* Mutant of IsExpired: a document without expiresAt counts as expired
IsExpired_Undefined(doc, t) == "expiresAt" \notin DOMAIN doc \/ t > doc.expiresAt

\* now > cacheObject.expiresAt; a document without the field compares false
IsExpired(doc, t) == "expiresAt" \in DOMAIN doc /\ t > doc.expiresAt

clearExpiredCaches(st, t) ==
  LET keysToRemove ==
        {key \in DOMAIN st :
           /\ StartsWith(key, CACHE_PREFIX)
           /\ \/ JSONparseThrows(st[key])
              \/ IsExpired(JSONparse(st[key]), t)}
  IN [k \in DOMAIN st \ keysToRemove |-> st[k]]

\* Mutant of CacheObject: the expiry forgets the time to live
CacheObject_NoTtl(data, ttlHours, t) ==
  [data |-> data, timestamp |-> t, expiresAt |-> t]

\* The object saveToCache serialises (ttlHours * 60 * 60 * 1000 ms, in seconds)
CacheObject(data, ttlHours, t) ==
  [data |-> data, timestamp |-> t, expiresAt |-> t + ttlHours * 60 * 60]

\* saveToCache: setItem is the outcome of localStorage.setItem, "ok" or the
\* name of the exception it throws.  Returns the storage left behind; it
\* never throws.
\* Mutant of saveToCache: a quota error drops the write without the sweep
saveToCache_NoSweep(st, orgName, dataType, data, ttlHours, t, setItem) ==
  IF setItem = "ok"
    THEN SetItem(st, getCacheKey(orgName, dataType),
                 JSONstringify(CacheObject(data, ttlHours, t)))
    ELSE st

saveToCache(st, orgName, dataType, data, ttlHours, t, setItem) ==
  IF setItem = "ok"
    THEN SetItem(st, getCacheKey(orgName, dataType),
                 JSONstringify(CacheObject(data, ttlHours, t)))
    ELSE IF setItem = "QuotaExceededError"
      THEN clearExpiredCaches(st, t)
      ELSE st

\* Mutant of loadFromCache: an expired entry is a miss but stays in storage
loadFromCache_KeepsExpired(st, orgName, dataType, t) ==
  LET key == getCacheKey(orgName, dataType) IN
  IF key \notin DOMAIN st \/ JSONparseThrows(st[key]) \/ IsExpired(JSONparse(st[key]), t)
    THEN [ret |-> JsNull, storage |-> st]
    ELSE [ret |-> JSONparse(st[key]).data, storage |-> st]

\* Mutant of loadFromCache: no try/catch around JSON.parse
loadFromCache_Uncaught(st, orgName, dataType, t) ==
  LET key == getCacheKey(orgName, dataType) IN
  IF key \notin DOMAIN st
    THEN [ret |-> JsNull, storage |-> st]
    ELSE IF JSONparseThrows(st[key])
      THEN [ret |-> [type |-> "SyntaxError"], storage |-> st]
      ELSE IF IsExpired(JSONparse(st[key]), t)
        THEN [ret |-> JsNull, storage |-> RemoveItem(st, key)]
        ELSE [ret |-> JSONparse(st[key]).data, storage |-> st]

\* loadFromCache: the value returned and the storage left behind
loadFromCache(st, orgName, dataType, t) ==
  LET key == getCacheKey(orgName, dataType) IN
  IF key \notin DOMAIN st
    THEN [ret |-> JsNull, storage |-> st]
    ELSE IF JSONparseThrows(st[key])
      THEN [ret |-> JsNull, storage |-> st]
      ELSE IF IsExpired(JSONparse(st[key]), t)
        THEN [ret |-> JsNull, storage |-> RemoveItem(st, key)]
        ELSE [ret |-> JSONparse(st[key]).data, storage |-> st]

clearCache(st, orgName, dataType) == RemoveItem(st, getCacheKey(orgName, dataType))

clearOrgCaches(st, orgName) ==
  LET keysToRemove ==
        {key \in DOMAIN st : StartsWith(key, CACHE_PREFIX \o "-" \o orgName \o "-")}
  IN [k \in DOMAIN st \ keysToRemove |-> st[k]]

(***************************************************************************)
(* utils/config.ts.  The settings live in the same localStorage as the     *)
(* cache, under STORAGE_KEY.  Every top-level key of the configuration     *)
(* holds an object of numbers, which is the shape deepMerge is applied to. *)
(***************************************************************************)
STORAGE_KEY == "github-org-analyser-settings"

defaultConfig ==
  [thresholds |-> [inactiveRepoMonths |-> 12, staleBranchDays |-> 90,
                   oldPRDays |-> 60, branchCountWarning |-> 50],
   cache |-> [ttlHours |-> 24]]

EmptyObject == [k \in {} |-> 0]

getUserSettings(st) ==
  IF STORAGE_KEY \notin DOMAIN st \/ JSONparseThrows(st[STORAGE_KEY])
    THEN EmptyObject
    ELSE JSONparse(st[STORAGE_KEY])

\* deepMerge(target, source): source[key] is an object at the top level
\* (merged recursively) and a number below it (copied)
deepMerge(target, source) ==
  [key \in DOMAIN target \cup DOMAIN source |->
     IF key \notin DOMAIN source THEN target[key]
     ELSE LET t == IF key \in DOMAIN target THEN target[key] ELSE EmptyObject
              src == source[key]
          IN [k \in DOMAIN t \cup DOMAIN src |->
                IF k \in DOMAIN src THEN src[k] ELSE t[k]]]

getConfig(st) == deepMerge(defaultConfig, getUserSettings(st))

\* saveUserSettings: a failing setItem is logged and the settings are not saved
saveUserSettings(st, settings, setItem) ==
  IF setItem = "ok" THEN [k \in DOMAIN st \cup {STORAGE_KEY} |->
                            IF k = STORAGE_KEY THEN JSONstringify(settings) ELSE st[k]]
  ELSE st

\* Mutant of updateConfigValue: the settings are replaced by the one new value
updateConfigValue_Replaces(st, path, value, setItem) ==
  saveUserSettings(st, [k \in {path[1]} |-> [j \in {path[2]} |-> value]], setItem)

\* updateConfigValue(path, value) for a path of two keys, e.g. cache.ttlHours
updateConfigValue(st, path, value, setItem) ==
  LET settings == getUserSettings(st)
      current == IF path[1] \in DOMAIN settings THEN settings[path[1]] ELSE EmptyObject
      updated == [k \in DOMAIN current \cup {path[2]} |->
                    IF k = path[2] THEN value ELSE current[k]]
  IN saveUserSettings(st,
       [k \in DOMAIN settings \cup {path[1]} |->
          IF k = path[1] THEN updated ELSE settings[k]],
       setItem)

\* Mutant of resetToDefaults: the stored settings stay
resetToDefaults_KeepsSettings(st) == st

\* resetToDefaults
resetToDefaults(st) == [k \in DOMAIN st \ {STORAGE_KEY} |-> st[k]]

(***************************************************************************)
(* Array helpers                                                           *)
(***************************************************************************)
\* Array.prototype.sort with comparator Cmp: stable, a before b when
\* Cmp(a, b) < 0
StableSort(seq, Cmp(_, _)) ==
  LET n == Len(seq)
      Rank(i) == 1 + Cardinality({j \in 1..n :
                        \/ Cmp(seq[j], seq[i]) < 0
                        \/ (Cmp(seq[j], seq[i]) = 0 /\ j < i)})
  IN [k \in 1..n |-> seq[CHOOSE i \in 1..n : Rank(i) = k]]

\* Array.prototype.filter
Filter(seq, Keep(_)) == SelectSeq(seq, Keep)

\* Array.prototype.slice(0, limit)
Slice(seq, limit) == SubSeq(seq, 1, IF Len(seq) < limit THEN Len(seq) ELSE limit)

Count(seq, Test(_)) == Len(SelectSeq(seq, Test))

(***************************************************************************)
(* Report builders: what each tab computes from the Remote Client's        *)
(* answers.  URLs are left out of the rows: they are copies of fields of   *)
(* the repository.                                                         *)
(***************************************************************************)
SecondsPerDay == 24 * 60 * 60

\* repos.filter(repo => !repo.archived && !repo.fork)
IsActiveRepo(repo) == ~repo.archived /\ ~repo.fork
ActiveRepos(repos) == Filter(repos, IsActiveRepo)

\* CleanupNeeded: the three cutoff dates, computed once per build.  setMonth
\* moves the date by calendar months; a month is taken as 30 days.
CleanupCutoffs(config, t) ==
  [inactive |-> t - config.thresholds.inactiveRepoMonths * 30 * SecondsPerDay,
   stale |-> t - config.thresholds.staleBranchDays * SecondsPerDay,
   pr |-> t - config.thresholds.oldPRDays * SecondsPerDay]

\* CleanupNeeded: the archive-candidate row of a repository, if it has one
InactiveRows(repo, lastPR, cut, t) ==
  LET pushedAt == repo.pushed_at
      hasPR == lastPR # JsNull
      isLastPR == hasPR /\ lastPR.updated_at > pushedAt
      lastActivity == IF isLastPR THEN lastPR.updated_at ELSE pushedAt
  IN IF lastActivity < cut.inactive
       THEN <<[name |-> repo.name,
               lastCommitDate |-> JsDate(pushedAt),
               lastPRDate |-> IF hasPR THEN JsDate(lastPR.updated_at) ELSE JsNull,
               lastActivity |-> JsDate(lastActivity),
               isLastActivityPR |-> IF hasPR THEN JsBoolean(isLastPR) ELSE JsNull,
               daysInactive |-> (t - lastActivity) \div SecondsPerDay]>>
       ELSE <<>>

NonDefaultBranches(repo, branches) ==
  LET NotDefault(branch) == branch.name # repo.default_branch
  IN Filter(branches, NotDefault)

\* Mutant of TooManyBranches: the threshold itself already counts as too many
TooManyBranches_AtThreshold(repo, branches, config) ==
  Len(NonDefaultBranches(repo, branches)) >= config.thresholds.branchCountWarning

TooManyBranches(repo, branches, config) ==
  Len(NonDefaultBranches(repo, branches)) > config.thresholds.branchCountWarning

WarningRow(repo, branches) ==
  [repoName |-> repo.name, isWarning |-> TRUE,
   branchCount |-> Len(NonDefaultBranches(repo, branches)), staleBranchCount |-> 0]

\* Array.from(new Set(...)): the distinct values in order of first occurrence
Distinct(seq) ==
  LET First(i) == \A j \in 1..(i - 1) : seq[j] # seq[i]
      idx == {i \in 1..Len(seq) : First(i)}
      Nth(k) == CHOOSE i \in idx : Cardinality({j \in idx : j < i}) = k - 1
  IN [k \in 1..Cardinality(idx) |-> seq[Nth(k)]]

\* Mutant of StaleRows: a branch last committed to at the cutoff is stale
StaleRows_AtCutoff(repo, branches, allBranchDetails, cut) ==
  LET IsStale(d) == d # JsNull /\ d.commit.date <= cut.stale
      stale == Filter(allBranchDetails, IsStale)
  IN IF Len(stale) > 0
       THEN <<[repoName |-> repo.name, isWarning |-> FALSE,
               staleBranchCount |-> Len(stale),
               totalBranches |-> Len(NonDefaultBranches(repo, branches)),
               authors |-> Distinct([i \in 1..Len(stale) |-> stale[i].commit.author])]>>
       ELSE <<>>

\* CleanupNeeded: the stale-branch row of a repository from its branch
\* details (null for a failed fetch), if it has a stale branch
StaleRows(repo, branches, allBranchDetails, cut) ==
  LET IsStale(d) == d # JsNull /\ d.commit.date < cut.stale
      stale == Filter(allBranchDetails, IsStale)
  IN IF Len(stale) > 0
       THEN <<[repoName |-> repo.name, isWarning |-> FALSE,
               staleBranchCount |-> Len(stale),
               totalBranches |-> Len(NonDefaultBranches(repo, branches)),
               authors |-> Distinct([i \in 1..Len(stale) |-> stale[i].commit.author])]>>
       ELSE <<>>

\* CleanupNeeded: the oldest of the old pull requests, the first one of the
\* greatest age in days
OldestPR(old, t) ==
  LET DaysOpen(pr) == (t - pr.created_at) \div SecondsPerDay
      best == CHOOSE i \in 1..Len(old) :
                /\ \A j \in 1..Len(old) : DaysOpen(old[j]) <= DaysOpen(old[i])
                /\ \A j \in 1..(i - 1) : DaysOpen(old[j]) < DaysOpen(old[i])
  IN [daysOpen |-> DaysOpen(old[best]), number |-> old[best].number]

OldPRRows(repo, openPRs, cut, t) ==
  LET IsOld(pr) == pr.created_at < cut.pr
      old == Filter(openPRs, IsOld)
  IN IF Len(old) > 0
       THEN <<[repoName |-> repo.name, oldPRCount |-> Len(old),
               totalPRs |-> Len(openPRs), oldestPR |-> OldestPR(old, t)]>>
       ELSE <<>>

InactiveCmp(a, b) == b.daysInactive - a.daysInactive

\* Mutant of StaleCmp: the rows are compared by stale-branch count alone
StaleCmp_CountOnly(a, b) == b.staleBranchCount - a.staleBranchCount

StaleCmp(a, b) ==
  IF a.isWarning /\ ~b.isWarning THEN -1
  ELSE IF ~a.isWarning /\ b.isWarning THEN 1
  ELSE IF a.isWarning /\ b.isWarning THEN b.branchCount - a.branchCount
  ELSE b.staleBranchCount - a.staleBranchCount

OldPRCmp(a, b) == b.oldestPR.daysOpen - a.oldestPR.daysOpen

RECURSIVE SumOldPRCount(_)
SumOldPRCount(rows) ==
  IF rows = <<>> THEN 0 ELSE Head(rows).oldPRCount + SumOldPRCount(Tail(rows))

\* CleanupNeeded: the report set on the tab and saved, from the three lists
CleanupResult(reposWithActivity, reposWithStaleBranches, reposWithOldPRs) ==
  LET inactive == StableSort(reposWithActivity, InactiveCmp)
      stale == StableSort(reposWithStaleBranches, StaleCmp)
      old == StableSort(reposWithOldPRs, OldPRCmp)
  IN [inactiveRepos |-> inactive, totalInactive |-> Len(inactive),
      staleBranches |-> stale, oldPRs |-> old,
      totalStaleBranchRepos |-> Len(stale), totalOldPRRepos |-> Len(old),
      totalOldPRs |-> SumOldPRCount(old)]

Visibility(repo) == IF repo.private THEN "private" ELSE "public"

\* Security: the row of a repository whose vulnerability alerts are disabled
DisabledRow(repo) == [name |-> repo.name, visibility |-> Visibility(repo)]

\* Security: the row of a repository from its open Dependabot alerts, if any
AlertRows(repo, dependabotAlerts) ==
  LET Is(sev) == LET T(alert) == alert.severity = sev
                 IN Count(dependabotAlerts, T)
  IN IF Len(dependabotAlerts) > 0
       THEN <<[name |-> repo.name, visibility |-> Visibility(repo),
               totalAlerts |-> Len(dependabotAlerts),
               critical |-> Is("critical"), high |-> Is("high"),
               medium |-> Is("medium"), low |-> Is("low")]>>
       ELSE <<>>

AlertCmp(a, b) ==
  IF b.critical # a.critical THEN b.critical - a.critical
  ELSE IF b.high # a.high THEN b.high - a.high
  ELSE IF b.medium # a.medium THEN b.medium - a.medium
  ELSE b.totalAlerts - a.totalAlerts

SecurityResult(withAlerts, dependabotDisabled) ==
  [reposWithAlerts |-> StableSort(withAlerts, AlertCmp),
   dependabotDisabledRepos |-> dependabotDisabled]

\* Mutant of RepoBreakdown: private is tested before fork
RepoBreakdown_PrivateFirst(repos) ==
  LET N(Test(_)) == Count(repos, Test)
      PublicActive(r) == ~r.fork /\ ~r.private /\ ~r.archived
      PublicArchived(r) == ~r.fork /\ ~r.private /\ r.archived
      PrivateActive(r) == r.private /\ ~r.archived
      PrivateArchived(r) == r.private /\ r.archived
      ForkedActive(r) == r.fork /\ ~r.private /\ ~r.archived
      ForkedArchived(r) == r.fork /\ ~r.private /\ r.archived
  IN [publicActive |-> N(PublicActive), publicArchived |-> N(PublicArchived),
      privateActive |-> N(PrivateActive), privateArchived |-> N(PrivateArchived),
      forkedActive |-> N(ForkedActive), forkedArchived |-> N(ForkedArchived),
      total |-> Len(repos)]

\* Home: the six counters of the repository breakdown and the total
RepoBreakdown(repos) ==
  LET N(Test(_)) == Count(repos, Test)
      PublicActive(r) == ~r.fork /\ ~r.private /\ ~r.archived
      PublicArchived(r) == ~r.fork /\ ~r.private /\ r.archived
      PrivateActive(r) == ~r.fork /\ r.private /\ ~r.archived
      PrivateArchived(r) == ~r.fork /\ r.private /\ r.archived
      ForkedActive(r) == r.fork /\ ~r.archived
      ForkedArchived(r) == r.fork /\ r.archived
  IN [publicActive |-> N(PublicActive), publicArchived |-> N(PublicArchived),
      privateActive |-> N(PrivateActive), privateArchived |-> N(PrivateArchived),
      forkedActive |-> N(ForkedActive), forkedArchived |-> N(ForkedArchived),
      total |-> Len(repos)]

\* Home: Object.entries of a table of counts, sorted by count descending and
\* cut to the first limit names.  names lists one name per occurrence.
TopCounts(names, limit) ==
  LET keys == Distinct(names)
      entries == [i \in 1..Len(keys) |->
                    [name |-> keys[i],
                     count |-> LET Same(n) == n = keys[i] IN Count(names, Same)]]
      ByCount(a, b) == b.count - a.count
  IN Slice(StableSort(entries, ByCount), limit)

RECURSIVE AllTopics(_)
AllTopics(repos) ==
  IF repos = <<>> THEN <<>> ELSE Head(repos).topics \o AllTopics(Tail(repos))

\* Home: the overview set on the tab and saved.  A repository without a
\* language has language "".
HomeResult(org, repos, members) ==
  LET HasLanguage(r) == r.language # "" /\ ~r.archived /\ ~r.fork
      counted == Filter(repos, HasLanguage)
  IN [orgData |-> org, memberCount |-> Len(members),
      repoBreakdown |-> RepoBreakdown(repos),
      topLanguages |-> TopCounts([i \in 1..Len(counted) |-> counted[i].language], 5),
      topTopics |-> TopCounts(AllTopics(repos), 10)]

(***************************************************************************)
(* SpecCache: the cache API called directly, in any order, with the clock  *)
(* advancing between calls.                                                *)
(***************************************************************************)
TickSeconds == 30 * 60
EndOfTime == MaxTicks * TickSeconds

CacheOrgs == {"acme", "acme-labs"}
CacheTypes == {"cleanup", "security"}
TtlInputs == {1, 2}
SetItemOutcomes == {"ok", "QuotaExceededError", "SecurityError"}

\* A security report: JSON-native values only
SecurityPayload ==
  [reposWithAlerts |->
     <<[name |-> "api", visibility |-> "private", totalAlerts |-> 3,
        critical |-> 1, high |-> 2, medium |-> 0, low |-> 0]>>,
   dependabotDisabledRepos |-> <<[name |-> "web", visibility |-> "public"]>>]

\* A cleanup report with one archive candidate: its rows carry Date objects
CleanupPayload ==
  [inactiveRepos |->
     <<[name |-> "api", lastCommitDate |-> JsDate(0), lastPRDate |-> JsNull,
        lastActivity |-> JsDate(0), isLastActivityPR |-> JsNull,
        daysInactive |-> 400]>>,
   totalInactive |-> 1, staleBranches |-> <<>>, oldPRs |-> <<>>,
   totalStaleBranchRepos |-> 0, totalOldPRRepos |-> 0, totalOldPRs |-> 0]

Payloads == {SecurityPayload, CleanupPayload}

Absent == [kind |-> "absent"]
GetItem(st, key) == IF key \in DOMAIN st THEN st[key] ELSE Absent
EmptyStorage == [k \in {} |-> Absent]

NoSave == [type |-> "none"]
NoOp == [op |-> "none"]

\* The live saveToCache call of each pair after a cache call: a pair keeps
\* its call until its key is written again or is removed from storage
SavedAfter(st, written, record) ==
  [p \in CacheOrgs \X CacheTypes |->
     IF p = written THEN record
     ELSE IF getCacheKey(p[1], p[2]) \notin DOMAIN st THEN NoSave
     ELSE saved[p]]

CacheInit ==
  /\ now = 0
  /\ storage \in {EmptyStorage,
                  SetItem(EmptyStorage, getCacheKey("acme", "cleanup"), Garbage),
                  updateConfigValue(EmptyStorage, <<"cache", "ttlHours">>, 1, "ok")}
  /\ lastOp = NoOp
  /\ saved = [p \in CacheOrgs \X CacheTypes |-> NoSave]
  /\ ops = 0
  /\ keyIn = <<>> /\ keyOut = <<>> /\ input = <<>> /\ output = <<>> /\ pager = <<>>
  /\ apiService = FALSE /\ selectedOrg = "" /\ activeTab = "home"
  /\ comp = <<>> /\ builds = <<>>

CallSave(o, ty, x, ttl, outcome) ==
  /\ ops < MaxOps
  /\ storage' = saveToCache(storage, o, ty, x, ttl, now, outcome)
  /\ lastOp' = [op |-> "save", org |-> o, dataType |-> ty, setItem |-> outcome]
  /\ saved' = IF outcome = "ok"
                THEN SavedAfter(storage', <<o, ty>>,
                                [data |-> x, at |-> now, ttlHours |-> ttl])
                ELSE SavedAfter(storage', <<>>, NoSave)
  /\ ops' = ops + 1
  /\ UNCHANGED <<now, keyIn, keyOut, input, output, pager, appVars>>

CallLoad(o, ty) ==
  /\ ops < MaxOps
  /\ LET r == loadFromCache(storage, o, ty, now) IN
       /\ storage' = r.storage
       /\ lastOp' = [op |-> "load", org |-> o, dataType |-> ty, at |-> now,
                     ret |-> r.ret, live |-> saved[<<o, ty>>],
                     before |-> GetItem(storage, getCacheKey(o, ty)),
                     after |-> GetItem(storage', getCacheKey(o, ty))]
  /\ saved' = SavedAfter(storage', <<>>, NoSave)
  /\ ops' = ops + 1
  /\ UNCHANGED <<now, keyIn, keyOut, input, output, pager, appVars>>

CallClearCache(o, ty) ==
  /\ ops < MaxOps
  /\ storage' = clearCache(storage, o, ty)
  /\ lastOp' = [op |-> "clearCache", org |-> o, dataType |-> ty]
  /\ saved' = SavedAfter(storage', <<>>, NoSave)
  /\ ops' = ops + 1
  /\ UNCHANGED <<now, keyIn, keyOut, input, output, pager, appVars>>

CallClearExpired ==
  /\ ops < MaxOps
  /\ storage' = clearExpiredCaches(storage, now)
  /\ lastOp' = [op |-> "clearExpiredCaches", at |-> now, before |-> storage]
  /\ saved' = SavedAfter(storage', <<>>, NoSave)
  /\ ops' = ops + 1
  /\ UNCHANGED <<now, keyIn, keyOut, input, output, pager, appVars>>

CallClearOrg(o) ==
  /\ ops < MaxOps
  /\ storage' = clearOrgCaches(storage, o)
  /\ lastOp' = [op |-> "clearOrgCaches", org |-> o, before |-> storage]
  /\ saved' = SavedAfter(storage', <<>>, NoSave)
  /\ ops' = ops + 1
  /\ UNCHANGED <<now, keyIn, keyOut, input, output, pager, appVars>>

CacheTick ==
  /\ now < EndOfTime
  /\ now' = now + TickSeconds
  /\ UNCHANGED <<storage, lastOp, saved, ops, keyIn, keyOut, input, output, pager, appVars>>

CacheNext ==
  \/ \E o \in CacheOrgs, ty \in CacheTypes, x \in Payloads, ttl \in TtlInputs,
        outcome \in SetItemOutcomes : CallSave(o, ty, x, ttl, outcome)
  \/ \E o \in CacheOrgs, ty \in CacheTypes : CallLoad(o, ty)
  \/ \E o \in CacheOrgs, ty \in CacheTypes : CallClearCache(o, ty)
  \/ CallClearExpired
  \/ \E o \in CacheOrgs : CallClearOrg(o)
  \/ CacheTick

SpecCache == CacheInit /\ [][CacheNext]_vars

(***************************************************************************)
(* SpecKey: getCacheKey applied to two (organisation, report type) pairs.  *)
(* Organisation names are the logins the API returns, any non-empty        *)
(* string; report types are the literals the tabs pass.                    *)
(***************************************************************************)
KeyAlphabet == {"a", "-", "security"}

RECURSIVE Names(_)
Names(n) ==
  IF n = 0 THEN {""}
  ELSE Names(n - 1) \cup {s \o c : s \in Names(n - 1), c \in KeyAlphabet}

OrgNames == Names(MaxOrgTokens) \ {""}
ReportTypes == {"home", "cleanup", "security", "governance-repo", "security-org", "costs"}

KeyInit ==
  /\ keyIn \in (OrgNames \X ReportTypes) \X (OrgNames \X ReportTypes)
  /\ keyOut = <<>> /\ input = <<>> /\ output = <<>> /\ pager = <<>>
  /\ now = 0 /\ storage = EmptyStorage /\ lastOp = NoOp /\ ops = 0
  /\ saved = [p \in CacheOrgs \X CacheTypes |-> NoSave]
  /\ apiService = FALSE /\ selectedOrg = "" /\ activeTab = "home"
  /\ comp = <<>> /\ builds = <<>>

ComputeKeys ==
  /\ keyOut = <<>>
  /\ keyOut' = <<getCacheKey(keyIn[1][1], keyIn[1][2]),
                 getCacheKey(keyIn[2][1], keyIn[2][2])>>
  /\ UNCHANGED <<keyIn, input, output, pager, now, storage, lastOp, saved, ops, appVars>>

KeyNext == ComputeKeys

SpecKey == KeyInit /\ [][KeyNext]_vars

(***************************************************************************)
(* Spec: the App, its tabs and their builds.  A build is one call of a     *)
(* tab's fetchData; it runs from one await to the next in one step.        *)
(***************************************************************************)
StartTime == 500 * SecondsPerDay
Tabs == {"home", "cleanup", "security"}      \* the report tabs modelled
AllTabs == Tabs \cup {"settings"}
Orgs == {"acme"}

\* Security reads its configuration once, on mount (useConfig); Home and
\* CleanupNeeded call getConfig() on every render
ReadsConfigOnMount(tab) == tab = "security"

\* The Remote Client's answers
RepoApi ==
  [name |-> "api", archived |-> FALSE, fork |-> FALSE, private |-> TRUE,
   pushed_at |-> 0, default_branch |-> "main", language |-> "Go",
   topics |-> <<"infra">>]
RepoLegacy ==
  [name |-> "legacy", archived |-> TRUE, fork |-> FALSE, private |-> FALSE,
   pushed_at |-> 0, default_branch |-> "master", language |-> "Go",
   topics |-> <<"infra", "old">>]
RepoFork ==
  [name |-> "fork", archived |-> FALSE, fork |-> TRUE, private |-> FALSE,
   pushed_at |-> StartTime, default_branch |-> "main", language |-> "",
   topics |-> <<>>]
RepoLists == {<<RepoLegacy, RepoApi>>, <<RepoFork>>}
Members == <<"alice", "bob">>
TopLevelErrors == {"GitHub API error: 500"}

CleanupAnswers ==
  {[lastPR |-> JsNull, branches |-> <<[name |-> "main"]>>, openPRs |-> <<>>],
   [lastPR |-> [updated_at |-> StartTime - 400 * SecondsPerDay],
    branches |-> <<[name |-> "main"], [name |-> "feature"]>>,
    openPRs |-> <<[number |-> 7, created_at |-> StartTime - 100 * SecondsPerDay]>>]}
BranchAnswers ==
  {JsNull, [commit |-> [date |-> StartTime - 100 * SecondsPerDay, author |-> "alice"]]}
AlertStatuses == {"204", "404"}
AlertAnswers == {<<>>, <<[severity |-> "critical"], [severity |-> "low"]>>}

\* A request that fetch itself rejects (no answer from the network)
NetworkError == "error"

\* isDependabotEnabled: response.status === 204 for an answer of any status,
\* true when fetch rejects
isDependabotEnabled(status) ==
  IF status = NetworkError THEN TRUE ELSE status = "204"

\* Mutant of CacheHit: a cached report is never taken
CacheHit_Never(tab, cachedData) == FALSE

\* if (cachedData), and for Home: cachedData && 'repoBreakdown' in cachedData
CacheHit(tab, cachedData) ==
  /\ cachedData # JsNull
  /\ tab = "home" => "repoBreakdown" \in DOMAIN cachedData

\* The Remote Client calls a build issues before its first await
TopLevelCalls(tab) == IF tab = "home" THEN 3 ELSE 1
\* The Remote Client calls issued for one repository before the first await
RepoCalls(tab) == IF tab = "cleanup" THEN 3 ELSE 1

NoLists == [a |-> <<>>, b |-> <<>>, c |-> <<>>]

\* entryAtStart and ttlAtStart record, for the properties, the stored entry
\* and the configured cache TTL at the time of the call
NewBuild(tab, skipCache, config) ==
  [tab |-> tab, org |-> selectedOrg, skipCache |-> skipCache, config |-> config,
   pc |-> "start", hit |-> FALSE, calls |-> 0, reads |-> 0,
   entryAtStart |-> GetItem(storage, getCacheKey(selectedOrg, tab)),
   ttlAtStart |-> getConfig(storage).cache.ttlHours,
   repos |-> <<>>, i |-> 0, lists |-> NoLists, cut |-> JsNull, pending |-> JsNull,
   result |-> JsNull, error |-> JsNull,
   setItem |-> "none"]

\* A render of a tab with props api, org and active: getConfig() is read
\* again unless the tab uses useConfig.  The effect runs after the render
\* when one of its dependencies changed, which a new config object always
\* causes through fetchData; effectDue records that it runs and that its
\* condition (isActive && !hasLoaded && apiService && orgName) holds.  cause
\* records, for the properties, what made the render whose effect is due:
\* new props from the App, or a state update of the tab itself.
Rendered(c, tab, depsChanged, st, api, org, active) ==
  LET due == /\ depsChanged \/ ~ReadsConfigOnMount(tab)
             /\ active = tab /\ ~c.hasLoaded /\ api /\ org # ""
  IN [c EXCEPT !.config = IF ReadsConfigOnMount(tab) THEN @ ELSE getConfig(st),
               !.effectDue = due,
               !.cause = IF due THEN "props" ELSE "none"]

\* A tab after its state was set to c: it renders again if the state changed
\* or a new progress object was set
AfterSet(tab, c, progressSet, st) ==
  IF /\ [c EXCEPT !.effectDue = FALSE, !.cause = "none"] =
          [comp[tab] EXCEPT !.effectDue = FALSE, !.cause = "none"]
     /\ ~progressSet
    THEN c
    ELSE LET r == Rendered(c, tab, c.hasLoaded # comp[tab].hasLoaded, st,
                           apiService, selectedOrg, activeTab)
         IN [r EXCEPT !.cause = IF r.effectDue THEN "state" ELSE "none"]

SetsProgress(tab) == tab # "home"

Init ==
  /\ now = StartTime
  /\ storage \in
       {EmptyStorage,
        SetItem(EmptyStorage, getCacheKey("acme", "cleanup"), Garbage),
        SetItem(EmptyStorage, getCacheKey("acme", "cleanup"),
                JSONstringify(CacheObject(CleanupPayload, 24,
                                          StartTime - 24 * 60 * 60)))}
  /\ apiService = FALSE
  /\ selectedOrg = ""
  /\ activeTab = "home"
  /\ comp = [tab \in Tabs |->
               [loading |-> FALSE, error |-> JsNull, hasLoaded |-> FALSE,
                view |-> JsNull, viewOrg |-> "", config |-> getConfig(storage),
                effectDue |-> FALSE, cause |-> "none"]]
  /\ builds = <<>>
  /\ lastOp = NoOp /\ ops = 0 /\ keyIn = <<>> /\ keyOut = <<>>
  /\ input = <<>> /\ output = <<>> /\ pager = <<>>
  /\ saved = [p \in CacheOrgs \X CacheTypes |-> NoSave]

\* React flushes the effects of a render before it handles the next event
NoEffectDue == \A tab \in Tabs : ~comp[tab].effectDue

\* initializeApiService: the service is set; the organisation is selected
\* when the user belongs to exactly one
InitializeApiService(single) ==
  /\ NoEffectDue
  /\ ~apiService
  /\ apiService' = TRUE
  /\ selectedOrg' = IF single THEN "acme" ELSE selectedOrg
  /\ comp' = [tab \in Tabs |->
       Rendered(comp[tab], tab, TRUE, storage, TRUE,
                IF single THEN "acme" ELSE selectedOrg, activeTab)]
  /\ UNCHANGED <<now, storage, activeTab, builds>>
  /\ UNCHANGED cacheVars

\* Settings: setSelectedOrg
SelectOrg(org) ==
  /\ NoEffectDue
  /\ activeTab = "settings"
  /\ apiService
  /\ org # selectedOrg
  /\ selectedOrg' = org
  /\ comp' = [tab \in Tabs |->
       Rendered(comp[tab], tab, TRUE, storage, apiService, org, activeTab)]
  /\ UNCHANGED <<now, storage, apiService, activeTab, builds>>
  /\ UNCHANGED cacheVars

\* handleTabChange
ChangeTab(tab) ==
  /\ NoEffectDue
  /\ tab # activeTab
  /\ activeTab' = tab
  /\ comp' = [t \in Tabs |->
       Rendered(comp[t], t, t \in {tab, activeTab}, storage,
                apiService, selectedOrg, tab)]
  /\ UNCHANGED <<now, storage, apiService, selectedOrg, builds>>
  /\ UNCHANGED cacheVars

\* Settings, handleConfigChange('cache.ttlHours', value): only the Settings
\* tab renders again
HandleConfigChange(value, setItem) ==
  /\ NoEffectDue
  /\ activeTab = "settings"
  /\ storage' = updateConfigValue(storage, <<"cache", "ttlHours">>, value, setItem)
  /\ UNCHANGED <<now, apiService, selectedOrg, activeTab, comp, builds>>
  /\ UNCHANGED cacheVars

\* Settings, handleReset: the button is enabled when the configuration
\* differs from the defaults
HandleReset ==
  /\ NoEffectDue
  /\ activeTab = "settings"
  /\ getConfig(storage) # defaultConfig
  /\ storage' = resetToDefaults(storage)
  /\ UNCHANGED <<now, apiService, selectedOrg, activeTab, comp, builds>>
  /\ UNCHANGED cacheVars

\* fetchData up to its first await, called on the tab in state c
FetchData(tab, skipCache, c) ==
  /\ LET r == IF skipCache
                THEN [ret |-> JsNull, storage |-> storage]
                ELSE loadFromCache(storage, selectedOrg, tab, now)
         b == [NewBuild(tab, skipCache, c.config) EXCEPT
                 !.reads = IF skipCache THEN 0 ELSE 1]
     IN /\ storage' = r.storage
        /\ IF ~skipCache /\ CacheHit(tab, r.ret)
             THEN /\ builds' = Append(builds,
                       [b EXCEPT !.pc = "done", !.hit = TRUE, !.result = r.ret])
                  /\ comp' = [comp EXCEPT ![tab] =
                       AfterSet(tab, [c EXCEPT !.view = r.ret, !.viewOrg = selectedOrg,
                                          !.hasLoaded = TRUE], FALSE, r.storage)]
             ELSE /\ builds' = Append(builds,
                       [b EXCEPT !.pc = "repos", !.calls = TopLevelCalls(tab)])
                  /\ comp' = [comp EXCEPT ![tab] =
                       AfterSet(tab, [c EXCEPT !.loading = TRUE, !.error = JsNull],
                                SetsProgress(tab), r.storage)]
  /\ UNCHANGED <<now, apiService, selectedOrg, activeTab>>
  /\ UNCHANGED cacheVars

\* useEffect(() => { if (isActive && !hasLoaded && apiService && orgName) fetchData() })
\* Builds beyond MaxBuilds are not followed.
RunEffect(tab) ==
  /\ comp[tab].effectDue
  /\ IF Len(builds) < MaxBuilds
       THEN FetchData(tab, FALSE,
                      [comp[tab] EXCEPT !.effectDue = FALSE, !.cause = "none"])
       ELSE /\ comp' = [comp EXCEPT ![tab].effectDue = FALSE, ![tab].cause = "none"]
            /\ UNCHANGED <<now, storage, apiService, selectedOrg, activeTab, builds>>
            /\ UNCHANGED cacheVars

\* The refresh button, rendered on the visible tab when it is not loading
Refresh(tab) ==
  /\ NoEffectDue
  /\ Len(builds) < MaxBuilds
  /\ activeTab = tab
  /\ apiService /\ selectedOrg # ""
  /\ ~comp[tab].loading
  /\ FetchData(tab, TRUE, comp[tab])

\* Mutant of Finish: the report is set on the tab and never saved
Finish_NoSave(i, b, result, setItem) ==
  /\ storage' = storage
  /\ builds' = [builds EXCEPT ![i] =
       [b EXCEPT !.pc = "done", !.result = result, !.setItem = setItem]]
  /\ comp' = [comp EXCEPT ![b.tab] =
       AfterSet(b.tab, [@ EXCEPT !.view = result, !.viewOrg = b.org,
                                 !.hasLoaded = TRUE, !.loading = FALSE],
                FALSE, storage)]

\* The end of a build's try block: the report is set on the tab, saved to the
\* cache, and loading is cleared
Finish(i, b, result, setItem) ==
  LET st == saveToCache(storage, b.org, b.tab, result,
                        b.config.cache.ttlHours, now, setItem)
  IN /\ storage' = st
     /\ builds' = [builds EXCEPT ![i] =
          [b EXCEPT !.pc = "done", !.result = result, !.setItem = setItem]]
     /\ comp' = [comp EXCEPT ![b.tab] =
          AfterSet(b.tab, [@ EXCEPT !.view = result, !.viewOrg = b.org,
                                    !.hasLoaded = TRUE, !.loading = FALSE],
                   FALSE, st)]

Report(b) ==
  IF b.tab = "cleanup" THEN CleanupResult(b.lists.a, b.lists.b, b.lists.c)
  ELSE SecurityResult(b.lists.a, b.lists.b)

\* The loop moves to the next active repository, or the build finishes
Advance(i, b, setItem) ==
  IF b.i < Len(b.repos)
    THEN /\ builds' = [builds EXCEPT ![i] =
              [b EXCEPT !.pc = "repo", !.i = @ + 1, !.calls = @ + RepoCalls(b.tab),
                        !.pending = JsNull]]
         /\ comp' = [comp EXCEPT ![b.tab] = AfterSet(b.tab, @, TRUE, storage)]
         /\ storage' = storage
    ELSE Finish(i, [b EXCEPT !.pending = JsNull], Report(b), setItem)

\* Mutant of TopLevelFails: the failing build caches an empty report
TopLevelFails_Saves(i, err) ==
  /\ NoEffectDue
  /\ i \in 1..Len(builds)
  /\ builds[i].pc = "repos"
  /\ builds' = [builds EXCEPT ![i] = [@ EXCEPT !.pc = "failed", !.error = err]]
  /\ comp' = [comp EXCEPT ![builds[i].tab] =
       AfterSet(builds[i].tab, [@ EXCEPT !.error = [message |-> err],
                                        !.loading = FALSE], FALSE, storage)]
  /\ storage' = saveToCache(storage, builds[i].org, builds[i].tab, JsNull,
                            builds[i].config.cache.ttlHours, now, "ok")
  /\ UNCHANGED <<now, apiService, selectedOrg, activeTab>>
  /\ UNCHANGED cacheVars

\* The top-level fetch rejects: catch (err) { setError(err.message) }
TopLevelFails(i, err) ==
  /\ NoEffectDue
  /\ i \in 1..Len(builds)
  /\ builds[i].pc = "repos"
  /\ builds' = [builds EXCEPT ![i] = [@ EXCEPT !.pc = "failed", !.error = err]]
  /\ comp' = [comp EXCEPT ![builds[i].tab] =
       AfterSet(builds[i].tab, [@ EXCEPT !.error = [message |-> err],
                                        !.loading = FALSE], FALSE, storage)]
  /\ UNCHANGED <<now, storage, apiService, selectedOrg, activeTab>>
  /\ UNCHANGED cacheVars

\* The top-level fetch resolves
TopLevelResolves(i, repos, setItem) ==
  /\ NoEffectDue
  /\ i \in 1..Len(builds)
  /\ builds[i].pc = "repos"
  /\ LET b == builds[i] IN
       IF b.tab = "home"
         THEN Finish(i, b, HomeResult([login |-> b.org], repos, Members), setItem)
         ELSE Advance(i, [b EXCEPT !.repos = ActiveRepos(repos),
                                   !.cut = IF b.tab = "cleanup"
                                             THEN CleanupCutoffs(b.config, now)
                                             ELSE JsNull],
                      setItem)
  /\ UNCHANGED <<now, apiService, selectedOrg, activeTab>>
  /\ UNCHANGED cacheVars

\* CleanupNeeded: last PR, branches and open PRs of the repository arrive
CleanupRepoResolves(i, ans, setItem) ==
  /\ NoEffectDue
  /\ i \in 1..Len(builds)
  /\ builds[i].tab = "cleanup" /\ builds[i].pc = "repo"
  /\ LET b == builds[i]
         repo == b.repos[b.i]
         a == b.lists.a \o InactiveRows(repo, ans.lastPR, b.cut, now)
     IN IF TooManyBranches(repo, ans.branches, b.config)
          THEN Advance(i, [b EXCEPT !.lists =
                             [a |-> a,
                              b |-> b.lists.b \o <<WarningRow(repo, ans.branches)>>,
                              c |-> b.lists.c \o OldPRRows(repo, ans.openPRs, b.cut, now)]],
                       setItem)
          ELSE /\ builds' = [builds EXCEPT ![i] =
                    [b EXCEPT !.pc = "details", !.lists.a = a, !.pending = ans,
                              !.calls = @ + Len(NonDefaultBranches(repo, ans.branches))]]
               /\ UNCHANGED <<storage, comp>>
  /\ UNCHANGED <<now, apiService, selectedOrg, activeTab>>
  /\ UNCHANGED cacheVars

\* CleanupNeeded: the details of the repository's non-default branches arrive
CleanupDetailsResolve(i, allBranchDetails, setItem) ==
  /\ NoEffectDue
  /\ i \in 1..Len(builds)
  /\ builds[i].tab = "cleanup" /\ builds[i].pc = "details"
  /\ LET b == builds[i]
         repo == b.repos[b.i]
     IN /\ Len(allBranchDetails) = Len(NonDefaultBranches(repo, b.pending.branches))
        /\ Advance(i, [b EXCEPT !.lists =
                         [a |-> b.lists.a,
                          b |-> b.lists.b \o StaleRows(repo, b.pending.branches,
                                                       allBranchDetails, b.cut),
                          c |-> b.lists.c \o OldPRRows(repo, b.pending.openPRs, b.cut, now)]],
                   setItem)
  /\ UNCHANGED <<now, apiService, selectedOrg, activeTab>>
  /\ UNCHANGED cacheVars

\* Security: the vulnerability-alerts status of the repository arrives
SecurityStatusResolves(i, status, setItem) ==
  /\ NoEffectDue
  /\ i \in 1..Len(builds)
  /\ builds[i].tab = "security" /\ builds[i].pc = "repo"
  /\ LET b == builds[i]
         repo == b.repos[b.i]
     IN IF ~isDependabotEnabled(status)
          THEN Advance(i, [b EXCEPT !.lists.b = @ \o <<DisabledRow(repo)>>], setItem)
          ELSE /\ builds' = [builds EXCEPT ![i] =
                    [b EXCEPT !.pc = "details", !.calls = @ + 1]]
               /\ UNCHANGED <<storage, comp>>
  /\ UNCHANGED <<now, apiService, selectedOrg, activeTab>>
  /\ UNCHANGED cacheVars

\* Security: the open Dependabot alerts of the repository arrive
SecurityAlertsResolve(i, dependabotAlerts, setItem) ==
  /\ NoEffectDue
  /\ i \in 1..Len(builds)
  /\ builds[i].tab = "security" /\ builds[i].pc = "details"
  /\ LET b == builds[i]
         repo == b.repos[b.i]
     IN Advance(i, [b EXCEPT !.lists.a = @ \o AlertRows(repo, dependabotAlerts)], setItem)
  /\ UNCHANGED <<now, apiService, selectedOrg, activeTab>>
  /\ UNCHANGED cacheVars

Tick ==
  /\ NoEffectDue
  /\ now < StartTime + MaxAppTicks * TickSeconds
  /\ now' = now + TickSeconds
  /\ UNCHANGED <<storage, apiService, selectedOrg, activeTab, comp, builds>>
  /\ UNCHANGED cacheVars

BuildIds == 1..MaxBuilds
TtlChoices == {1}
SaveOutcomes == {"ok", "QuotaExceededError"}
DetailAnswers == UNION {[1..n -> BranchAnswers] : n \in 0..1}

Next ==
     \/ \E single \in BOOLEAN : InitializeApiService(single)
     \/ \E org \in Orgs : SelectOrg(org)
     \/ \E tab \in AllTabs : ChangeTab(tab)
     \/ \E value \in TtlChoices, setItem \in SaveOutcomes : HandleConfigChange(value, setItem)
     \/ HandleReset
     \/ \E tab \in Tabs : RunEffect(tab)
     \/ \E tab \in Tabs : Refresh(tab)
     \/ \E i \in BuildIds, err \in TopLevelErrors : TopLevelFails(i, err)
     \/ \E i \in BuildIds, repos \in RepoLists, setItem \in SaveOutcomes :
          TopLevelResolves(i, repos, setItem)
     \/ \E i \in BuildIds, ans \in CleanupAnswers, setItem \in SaveOutcomes :
          CleanupRepoResolves(i, ans, setItem)
     \/ \E i \in BuildIds, d \in DetailAnswers, setItem \in SaveOutcomes :
          CleanupDetailsResolve(i, d, setItem)
     \/ \E i \in BuildIds, status \in AlertStatuses, setItem \in SaveOutcomes :
          SecurityStatusResolves(i, status, setItem)
     \/ \E i \in BuildIds, alerts \in AlertAnswers, setItem \in SaveOutcomes :
          SecurityAlertsResolve(i, alerts, setItem)
     \/ Tick

Spec == Init /\ [][Next]_vars

(***************************************************************************)
(* SpecSwitch: the App of a user who belongs to two organisations and      *)
(* selects one or the other in Settings; the configuration is left alone.  *)
(***************************************************************************)
Organizations == {"acme", "acme-labs"}

SwitchInit == Init /\ storage = EmptyStorage

SwitchNext ==
     \/ InitializeApiService(FALSE)
     \/ \E org \in Organizations : SelectOrg(org)
     \/ \E tab \in AllTabs : ChangeTab(tab)
     \/ \E tab \in Tabs : RunEffect(tab)
     \/ \E tab \in Tabs : Refresh(tab)
     \/ \E i \in BuildIds, err \in TopLevelErrors : TopLevelFails(i, err)
     \/ \E i \in BuildIds, repos \in RepoLists, setItem \in SaveOutcomes :
          TopLevelResolves(i, repos, setItem)
     \/ \E i \in BuildIds, ans \in CleanupAnswers, setItem \in SaveOutcomes :
          CleanupRepoResolves(i, ans, setItem)
     \/ \E i \in BuildIds, d \in DetailAnswers, setItem \in SaveOutcomes :
          CleanupDetailsResolve(i, d, setItem)
     \/ \E i \in BuildIds, status \in AlertStatuses, setItem \in SaveOutcomes :
          SecurityStatusResolves(i, status, setItem)
     \/ \E i \in BuildIds, alerts \in AlertAnswers, setItem \in SaveOutcomes :
          SecurityAlertsResolve(i, alerts, setItem)

SpecSwitch == SwitchInit /\ [][SwitchNext]_vars

(***************************************************************************)
(* Claims                                                                  *)
(***************************************************************************)
LoadedExpired ==
  /\ lastOp.op = "load"
  /\ lastOp.before.kind = "json"
  /\ lastOp.at > lastOp.before.doc.expiresAt

\* C1: a loadFromCache call made when now > the stored entry's expiresAt
\* returns null, and the entry is gone from storage when the call returns.
C1_ExpiredIsNullAndRemoved ==
  LoadedExpired => lastOp.ret = JsNull /\ lastOp.after = Absent

C1_Witness == LoadedExpired /\ lastOp.ret = JsNull

\* A load of a pair whose last save is still in place, before its TTL has elapsed
LoadedLive ==
  /\ lastOp.op = "load"
  /\ lastOp.live # NoSave
  /\ lastOp.at < lastOp.live.at + lastOp.live.ttlHours * 60 * 60

\* C2 as stated: saveToCache(org, type, X, ttl) followed by loadFromCache(org,
\* type) before the TTL has elapsed, the key not written or invalidated in
\* between, returns a value equal to X.
C2_RoundTripEqualsX == LoadedLive => lastOp.ret = lastOp.live.data

\* C2 amended: the load returns X as JSON carries it, every Date of X
\* replaced by its ISO string; for a payload without Date values that is X.
C2_RoundTripIsJSONOfX ==
  LoadedLive =>
    /\ lastOp.ret = ToJSON(lastOp.live.data)
    /\ lastOp.live.data = SecurityPayload => lastOp.ret = lastOp.live.data

C2_Witness ==
  /\ LoadedLive
  /\ lastOp.live.data = CleanupPayload
  /\ lastOp.at > lastOp.live.at
  /\ lastOp.ret # JsNull

\* C8: loadFromCache(org, type) returns null when nothing saved under exactly
\* that pair is in place, whatever was saved for another organisation under
\* the same type or for the same organisation under another type.
C8_KeyIsolation ==
  (lastOp.op = "load" /\ lastOp.live = NoSave) => lastOp.ret = JsNull

C8_Witness ==
  /\ lastOp.op = "load"
  /\ lastOp.live = NoSave
  /\ lastOp.ret = JsNull
  /\ lastOp.before = Absent
  /\ \E o \in CacheOrgs \ {lastOp.org} : saved[<<o, lastOp.dataType>>] # NoSave
  /\ \E ty \in CacheTypes \ {lastOp.dataType} : saved[<<lastOp.org, ty>>] # NoSave

LoadedCorrupt == lastOp.op = "load" /\ lastOp.before = Garbage

C7_KeyInjective ==
  (keyOut # <<>> /\ keyOut[1] = keyOut[2]) => keyIn[1] = keyIn[2]

C7_Witness ==
  /\ keyOut # <<>>
  /\ keyIn[1] = <<"a", "security-org">>
  /\ keyIn[2] = <<"a-security", "security">>
  /\ keyOut[1] # keyOut[2]

(***************************************************************************)
(* Claims about builds (Spec)                                              *)
(***************************************************************************)
\* The stored item of a build's (org, reportType)
BuildKey(b) == getCacheKey(b.org, b.tab)
\* An item that is a cache entry not yet expired at time t
Unexpired(item, t) ==
  /\ item.kind = "json"
  /\ "expiresAt" \in DOMAIN item.doc
  /\ t <= item.doc.expiresAt
\* Build i starts, takes its last step to Done, or fails, in this step
Starts(i) == Len(builds) = i - 1 /\ Len(builds') = i
Completes(i) ==
  /\ i <= Len(builds) /\ builds[i].pc \in {"repos", "repo", "details"}
  /\ builds'[i].pc = "done"
Fails(i) == i <= Len(builds) /\ builds[i].pc = "repos" /\ builds'[i].pc = "failed"

\* A step of a build that starts on an unexpired entry, and every later step
C3_Step ==
  \A i \in BuildIds :
    /\ ( /\ Starts(i) /\ ~builds'[i].skipCache
         /\ Unexpired(GetItem(storage, BuildKey(builds'[i])), now) )
       => /\ builds'[i].pc = "done"
          /\ builds'[i].calls = 0
          /\ builds'[i].result = GetItem(storage, BuildKey(builds'[i])).doc.data
          /\ comp'[builds'[i].tab].view = builds'[i].result
          /\ ~comp'[builds'[i].tab].loading
    /\ (i <= Len(builds) /\ builds[i].hit)
       => builds'[i] = builds[i] /\ builds[i].pc = "done" /\ builds[i].calls = 0
C4_SkipStep(needsAccepted) ==
  \A i \in BuildIds :
    /\ (Starts(i) /\ builds'[i].skipCache)
       => /\ storage' = storage
          /\ builds'[i].reads = 0 /\ ~builds'[i].hit
          /\ builds'[i].pc = "repos" /\ builds'[i].calls >= 1
    /\ ( /\ Completes(i) /\ builds[i].skipCache
         /\ needsAccepted => builds'[i].setItem = "ok" )
       => LET item == GetItem(storage', BuildKey(builds[i])) IN
          /\ item.kind = "json"
          /\ item.doc.data = ToJSON(builds'[i].result)
          /\ item.doc.timestamp = now
\* C4 as stated: a build called with skipCache = true does not read the
\* cache, issues the top-level fetch, and whenever it ends Done the entry of
\* its (org, reportType) holds its result.
C4_RefreshAlwaysOverwrites == [][C4_SkipStep(FALSE)]_vars
\* C4, amended: a build called with skipCache = true does not read the
\* cache, issues the top-level fetch even when an unexpired entry exists,
\* and when it ends Done and storage accepts the write the entry of its
\* (org, reportType) holds its result.
C4_RefreshOverwritesWhenAccepted == [][C4_SkipStep(TRUE)]_vars
C4_Witness ==
  \E i \in 1..Len(builds) :
    /\ builds[i].skipCache /\ builds[i].pc = "done" /\ builds[i].setItem = "ok"
    /\ Unexpired(builds[i].entryAtStart, now)
    /\ builds[i].calls >= 1
    /\ GetItem(storage, BuildKey(builds[i])) # builds[i].entryAtStart
    /\ GetItem(storage, BuildKey(builds[i])).doc.data = ToJSON(builds[i].result)

\* What holds of every failing build: the error is surfaced, Failed is
\* terminal, saveToCache is never called and the failing step leaves storage
\* alone
C5_FailStep(i) ==
  /\ Fails(i)
     => /\ storage' = storage
        /\ builds'[i].setItem = "none"
        /\ comp'[builds[i].tab].error = [message |-> builds'[i].error]
        /\ ~comp'[builds[i].tab].loading
  /\ (i <= Len(builds) /\ builds[i].pc = "failed") => builds'[i] = builds[i]
\* C5 as stated: when the top-level fetch of a build fails, the build ends
\* Failed with the error surfaced and the stored entry of its
\* (org, reportType) is the one stored before the build started.
C5_FailedLeavesEntryAsAtStart ==
  [][\A i \in BuildIds :
       /\ C5_FailStep(i)
       /\ Fails(i) => GetItem(storage', BuildKey(builds[i])) = builds[i].entryAtStart]_vars
\* C5, amended: when the top-level fetch of a build fails, the build ends
\* Failed (terminal) with the error surfaced and without a cache write; the
\* only change the build makes to storage is its initial cache read
\* (skipCache = false) removing an entry that has expired.
C5_FailedWritesNothing ==
  [][\A i \in BuildIds :
       /\ C5_FailStep(i)
       /\ Starts(i)
          => \/ storage' = storage
             \/ /\ ~builds'[i].skipCache
                /\ GetItem(storage, BuildKey(builds'[i])).kind = "json"
                /\ now > GetItem(storage, BuildKey(builds'[i])).doc.expiresAt
                /\ storage' = RemoveItem(storage, BuildKey(builds'[i]))]_vars
C5_Witness ==
  \E i \in 1..Len(builds) :
    /\ builds[i].pc = "failed" /\ ~builds[i].skipCache
    /\ builds[i].entryAtStart.kind = "json"
    /\ GetItem(storage, BuildKey(builds[i])) = Absent
    /\ comp[builds[i].tab].error = [message |-> builds[i].error]

\* C6: when a build ends Done at time now and storage accepts the write, the
\* entry of its (org, reportType) holds the build's result and expires at
\* now + ttlHours hours, ttlHours being the configured cache TTL (the stored
\* settings merged over the defaults), both when the build was called and
\* when it ends.
C6_SavedWithConfiguredTtl ==
  [][\A i \in BuildIds :
       ( /\ Completes(i) /\ builds'[i].setItem = "ok"
         /\ getConfig(storage).cache.ttlHours = builds[i].ttlAtStart )
       => LET item == GetItem(storage', BuildKey(builds[i])) IN
          /\ item.kind = "json"
          /\ item.doc.data = ToJSON(builds'[i].result)
          /\ item.doc.expiresAt = now + builds[i].ttlAtStart * 60 * 60]_vars

\* The last step of a build whose write storage rejects with a quota error
C10_QuotaStep ==
  \A i \in BuildIds :
    (Completes(i) /\ builds'[i].setItem = "QuotaExceededError")
    => /\ builds'[i].result # JsNull
       /\ comp'[builds[i].tab].view = builds'[i].result
       /\ comp'[builds[i].tab].error = comp[builds[i].tab].error
       /\ ~comp'[builds[i].tab].loading /\ comp'[builds[i].tab].hasLoaded
       /\ DOMAIN storage' \subseteq DOMAIN storage
       /\ \A k \in DOMAIN storage' : storage'[k] = storage[k]
       /\ \A k \in DOMAIN storage :
            /\ ( /\ storage[k].kind = "json" /\ "expiresAt" \in DOMAIN storage[k].doc
                 /\ now > storage[k].doc.expiresAt ) => k \notin DOMAIN storage'
            /\ (Unexpired(storage[k], now) \/ k = STORAGE_KEY) => k \in DOMAIN storage'
\* C10: when storage rejects the write of a finishing build with a quota
\* error, the build still ends Done with its computed result on its tab and
\* no error; nothing is written to storage, every cache entry that has
\* expired is removed and every unexpired one is kept.
C10_QuotaSweepsAndDrops == [][C10_QuotaStep]_vars
C10_Witness ==
  \E i \in 1..Len(builds) :
    /\ builds[i].pc = "done" /\ builds[i].setItem = "QuotaExceededError"
    /\ comp[builds[i].tab].view = builds[i].result
    /\ builds[i].entryAtStart.kind = "json"
    /\ GetItem(storage, BuildKey(builds[i])) = Absent

(***************************************************************************)
(* SpecReport: the builders applied to the data the fetches return.  The   *)
(* top-level fetch returns up to MaxRepos repositories with any            *)
(* combination of the attributes the builders read.                        *)
(***************************************************************************)
RepoNames == <<"api", "web", "docs", "cli">>

RepoShapes(n) ==
  {[name |-> n, archived |-> a, fork |-> f, private |-> p, pushed_at |-> 0,
    default_branch |-> "main", language |-> l, topics |-> ts] :
     a \in BOOLEAN, f \in BOOLEAN, p \in BOOLEAN, l \in {"", "Go"},
     ts \in {<<>>, <<"infra">>}}

RECURSIVE FetchedRepos(_)
FetchedRepos(n) ==
  IF n = 0 THEN {<<>>}
  ELSE FetchedRepos(n - 1) \cup
       {Append(rs, r) : rs \in {x \in FetchedRepos(n - 1) : Len(x) = n - 1},
                        r \in RepoShapes(RepoNames[n])}

\* What a request of the Remote Client comes back with: a body, or an error
\* carrying the HTTP status
Ok(body) == [ok |-> TRUE, body |-> body]
Failure(status) == [ok |-> FALSE, status |-> status]

\* A promise: fulfilled with a value, or rejected
Fulfilled(value) == [rejected |-> FALSE, value |-> value]
Rejected == [rejected |-> TRUE]

\* promise.catch(() => fallback), awaited
Caught(promise, fallback) == IF promise.rejected THEN fallback ELSE promise.value

\* Promise.all(promises): rejected if one of them is
PromiseAll(promises) ==
  IF \E i \in 1..Len(promises) : promises[i].rejected THEN Rejected
  ELSE Fulfilled([i \in 1..Len(promises) |-> promises[i].value])

\* getLastPullRequest: the first pull request of the page, null for an empty
\* page and for a failed request
getLastPullRequest(response) ==
  Fulfilled(IF response.ok /\ Len(response.body) > 0 THEN response.body[1] ELSE JsNull)

\* getRepoBranches, getOpenPullRequests, getRepoTeams,
\* getRepoDirectCollaborators: the items of the page (fewer than 100, so the
\* only page), none for a failed request
getRepoBranches(response) == Fulfilled(IF response.ok THEN response.body ELSE <<>>)
getOpenPullRequests(response) == Fulfilled(IF response.ok THEN response.body ELSE <<>>)
getRepoTeams(response) == Fulfilled(IF response.ok THEN response.body ELSE <<>>)
getRepoDirectCollaborators(response) ==
  Fulfilled(IF response.ok THEN response.body ELSE <<>>)

\* Mutant of getBranchDetails: the error of a failed request is thrown again
getBranchDetails_Rethrows(response) ==
  IF response.ok THEN Fulfilled(response.body) ELSE Rejected

\* getBranchDetails: the branch, null for a failed request
getBranchDetails(response) == Fulfilled(IF response.ok THEN response.body ELSE JsNull)

\* getDependabotAlerts: the alerts of the page, none for a failed request
getDependabotAlerts(response) == Fulfilled(IF response.ok THEN response.body ELSE <<>>)

\* isBranchProtected: true for a success, false for 404, any other error is
\* thrown again
isBranchProtected(response) ==
  IF response.ok THEN Fulfilled(TRUE)
  ELSE IF response.status = 404 THEN Fulfilled(FALSE)
  ELSE Rejected

\* CleanupNeeded: one pass of the loop over a repository and the responses to
\* its requests; detailCalls lists the getBranchDetails calls made.  A
\* rejected await leaves the loop for the catch block of the build.
CleanupRepo(repo, responses, config, cut, t) ==
  LET fetched == PromiseAll(<<getLastPullRequest(responses.lastPR),
                              getRepoBranches(responses.branches),
                              getOpenPullRequests(responses.openPRs)>>)
  IN IF fetched.rejected THEN Rejected
     ELSE
       LET lastPR == fetched.value[1]
           branches == fetched.value[2]
           openPRs == fetched.value[3]
           nonDefaultBranches == NonDefaultBranches(repo, branches)
           tooMany == TooManyBranches(repo, branches, config)
           called == IF tooMany THEN <<>> ELSE nonDefaultBranches
           allBranchDetails ==
             PromiseAll([i \in 1..Len(called) |-> getBranchDetails(responses.details[i])])
       IN IF allBranchDetails.rejected THEN Rejected
          ELSE Fulfilled(
                 [a |-> InactiveRows(repo, lastPR, cut, t),
                  b |-> IF tooMany THEN <<WarningRow(repo, branches)>>
                        ELSE StaleRows(repo, branches, allBranchDetails.value, cut),
                  c |-> OldPRRows(repo, openPRs, cut, t),
                  detailCalls |->
                    [i \in 1..Len(called) |-> <<repo.name, called[i].name>>]])

\* CleanupNeeded: the loop over the active repositories from repository i on
RECURSIVE CleanupLoop(_, _, _, _, _, _)
CleanupLoop(activeRepos, responses, config, t, i, acc) ==
  IF i > Len(activeRepos) THEN Fulfilled(acc)
  ELSE LET r == CleanupRepo(activeRepos[i], responses[i], config,
                            CleanupCutoffs(config, t), t)
       IN IF r.rejected THEN Rejected
          ELSE CleanupLoop(activeRepos, responses, config, t, i + 1,
                           [a |-> acc.a \o r.value.a, b |-> acc.b \o r.value.b,
                            c |-> acc.c \o r.value.c,
                            detailCalls |-> acc.detailCalls \o r.value.detailCalls])

\* CleanupNeeded: the try block after the top-level fetch, to its end or to
\* the catch block
CleanupBuild(repos, responses, config, t) ==
  LET lists == CleanupLoop(ActiveRepos(repos), responses, config, t, 1,
                           [a |-> <<>>, b |-> <<>>, c |-> <<>>, detailCalls |-> <<>>])
  IN IF lists.rejected THEN [pc |-> "failed"]
     ELSE [pc |-> "done",
           result |-> CleanupResult(lists.value.a, lists.value.b, lists.value.c),
           detailCalls |-> lists.value.detailCalls]

\* Security: the loop over the active repositories from repository i on.  The
\* status of the vulnerability-alerts request decides whether the alerts are
\* fetched; alertCalls lists the getDependabotAlerts calls made.
RECURSIVE SecurityLoop(_, _, _, _)
SecurityLoop(activeRepos, responses, i, acc) ==
  IF i > Len(activeRepos) THEN acc
  ELSE
    LET repo == activeRepos[i]
        enabled == isDependabotEnabled(responses[i].enabled)
        dependabotAlerts == Caught(getDependabotAlerts(responses[i].alerts), <<>>)
    IN SecurityLoop(activeRepos, responses, i + 1,
         IF ~enabled
           THEN [acc EXCEPT !.dependabotDisabled = @ \o <<DisabledRow(repo)>>]
           ELSE [acc EXCEPT !.withAlerts = @ \o AlertRows(repo, dependabotAlerts),
                            !.alertCalls = @ \o <<repo.name>>])

\* Security: the try block after the top-level fetch
SecurityBuild(repos, responses) ==
  LET lists == SecurityLoop(ActiveRepos(repos), responses, 1,
                            [withAlerts |-> <<>>, dependabotDisabled |-> <<>>,
                             alertCalls |-> <<>>])
  IN [pc |-> "done",
      result |-> SecurityResult(lists.withAlerts, lists.dependabotDisabled),
      alertCalls |-> lists.alertCalls]

\* Mutant of ExplicitAdmins: a team counts whatever its permission
ExplicitAdmins_AnyTeam(teams, directCollaborators) ==
  LET IsAdmin(collab) == "permissions" \in DOMAIN collab /\ collab.permissions.admin = TRUE
  IN Len(teams) + Len(Filter(directCollaborators, IsAdmin))

\* GovernanceRepo: adminTeams.length + adminCollaborators.length
ExplicitAdmins(teams, directCollaborators) ==
  LET IsAdminTeam(team) == team.permission = "admin"
      IsAdmin(collab) == "permissions" \in DOMAIN collab /\ collab.permissions.admin = TRUE
  IN Len(Filter(teams, IsAdminTeam)) + Len(Filter(directCollaborators, IsAdmin))

\* GovernanceRepo.processActiveRepos: the loop from repository i on
RECURSIVE processActiveRepos(_, _, _, _)
processActiveRepos(activeRepos, responses, i, acc) ==
  IF i > Len(activeRepos) THEN acc
  ELSE
    LET repo == activeRepos[i]
        isProtected == Caught(isBranchProtected(responses[i].protection), FALSE)
        teams == Caught(getRepoTeams(responses[i].teams), <<>>)
        directCollaborators ==
          Caught(getRepoDirectCollaborators(responses[i].collaborators), <<>>)
        unprotected ==
          IF ~isProtected
            THEN <<[name |-> repo.name, defaultBranch |-> repo.default_branch,
                    visibility |-> Visibility(repo)]>>
            ELSE <<>>
        noAdmin ==
          IF ExplicitAdmins(teams, directCollaborators) = 0
            THEN <<[name |-> repo.name,
                    collaboratorCount |-> Len(directCollaborators),
                    visibility |-> Visibility(repo)]>>
            ELSE <<>>
    IN processActiveRepos(activeRepos, responses, i + 1,
                          [unprotected |-> acc.unprotected \o unprotected,
                           noAdmin |-> acc.noAdmin \o noAdmin])

\* GovernanceRepo: the try block after the top-level fetch, for an
\* organisation without unarchived forks (processForks returns no row)
GovernanceBuild(repos, responses) ==
  LET active == processActiveRepos(ActiveRepos(repos), responses, 1,
                                   [unprotected |-> <<>>, noAdmin |-> <<>>])
  IN [pc |-> "done",
      result |-> [forkedRepos |-> <<>>, totalForks |-> 0,
                  unprotectedRepos |-> active.unprotected,
                  noAdminRepos |-> active.noAdmin,
                  totalUnprotected |-> Len(active.unprotected),
                  totalNoAdmin |-> Len(active.noAdmin)]]

\* An active repository; the n-th was last pushed 500 - 50 n days ago
ActiveRepo(n) ==
  [name |-> RepoNames[n], archived |-> FALSE, fork |-> FALSE, private |-> TRUE,
   pushed_at |-> n * 50 * SecondsPerDay, default_branch |-> "main",
   language |-> "Go", topics |-> <<>>]

BranchNames == <<"b1", "b2", "b3", "b4", "b5">>
BranchList(k) == <<[name |-> "main"]>> \o [i \in 1..k |-> [name |-> BranchNames[i]]]
StaleBranch ==
  Ok([commit |-> [date |-> StartTime - 100 * SecondsPerDay, author |-> "alice"]])
FreshBranch ==
  Ok([commit |-> [date |-> StartTime - SecondsPerDay, author |-> "bob"]])
\* A branch last committed to exactly staleBranchDays (the default, 90) ago
EdgeBranch ==
  Ok([commit |-> [date |-> StartTime - defaultConfig.thresholds.staleBranchDays * SecondsPerDay,
                  author |-> "carol"]])
OldPR == [number |-> 7, created_at |-> StartTime - 100 * SecondsPerDay,
          updated_at |-> StartTime - 100 * SecondsPerDay]

\* The responses to the requests made for one repository.  The details of
\* one or two branches come in every mix of stale, fresh and failed; longer
\* branch lists have stale branches only, or one stale, one at the cutoff and
\* one fresh.
BranchResponses ==
  {[branches |-> Failure(500), details |-> <<>>],
   [branches |-> Ok(BranchList(1)), details |-> <<EdgeBranch>>],
   [branches |-> Ok(BranchList(3)),
    details |-> <<StaleBranch, EdgeBranch, FreshBranch>>]} \cup
  UNION {{[branches |-> Ok(BranchList(k)), details |-> d] :
            d \in [1..k -> {StaleBranch, FreshBranch, Failure(500)}]} :
         k \in 0..2} \cup
  {[branches |-> Ok(BranchList(k)), details |-> [i \in 1..k |-> StaleBranch]] :
     k \in 3..MaxBranches}
PullResponses ==
  {[lastPR |-> Ok(<<>>), openPRs |-> Ok(<<>>)],
   [lastPR |-> Ok(<<OldPR>>), openPRs |-> Ok(<<OldPR>>)],
   [lastPR |-> Failure(500), openPRs |-> Failure(500)]}
CleanupResponses ==
  {[lastPR |-> p.lastPR, openPRs |-> p.openPRs, branches |-> b.branches,
    details |-> b.details] :
     p \in PullResponses, b \in {x \in BranchResponses : Len(x.details) <= 1}} \cup
  {[lastPR |-> Ok(<<>>), openPRs |-> Ok(<<>>), branches |-> b.branches,
    details |-> b.details] : b \in BranchResponses}

BranchWarnings == {2, 50}

\* The display limits the older builders read from the configuration
DisplayLimits == {2}

\* The severity of an alert is a string: the four the rows count, and any other
Severities == {"critical", "high", "medium", "low", "moderate"}
AlertLists == UNION {[1..n -> [severity : Severities]] : n \in 0..MaxAlerts}
SecurityResponses ==
  {[enabled |-> "204", alerts |-> Ok(alerts)] : alerts \in AlertLists} \cup
  {[enabled |-> "204", alerts |-> Failure(500)],
   [enabled |-> "404", alerts |-> Ok(<<>>)]} \cup
  {[enabled |-> status, alerts |-> Ok(<<[severity |-> "high"]>>)] :
     status \in {"403", "500", NetworkError}}

ProtectionResponses == {Ok(<<>>), Failure(404), Failure(500)}
TeamResponses ==
  {Failure(500), Ok(<<>>), Ok(<<[name |-> "readers", permission |-> "pull"]>>),
   Ok(<<[name |-> "readers", permission |-> "pull"],
        [name |-> "owners", permission |-> "admin"]>>),
   Ok(<<[name |-> "owners", permission |-> "admin"]>>)}
CollaboratorResponses ==
  {Failure(500), Ok(<<>>),
   Ok(<<[login |-> "alice"], [login |-> "bob", permissions |-> [admin |-> FALSE]]>>),
   Ok(<<[login |-> "carol", permissions |-> [admin |-> TRUE]]>>)}
GovernanceResponses ==
  [protection : ProtectionResponses, teams : TeamResponses,
   collaborators : CollaboratorResponses]

\* The data of a cleanup build: the repositories fetched, the responses to the
\* requests of each active one, and the configuration: the defaults merged
\* with settings that hold a warning threshold and display limits
CleanupInput(repos, responses, w, limit) ==
  [builder |-> "cleanup", repos |-> repos, responses |-> responses,
   config |-> deepMerge(defaultConfig,
                        [thresholds |-> [branchCountWarning |-> w],
                         displayLimits |-> [maxInactiveRepos |-> limit,
                                            maxStaleBranchRepos |-> limit,
                                            maxOldPRRepos |-> limit]])]

\* The responses for which a repository has a row in a list of the report
RowResponses ==
  [cleanup |-> [lastPR |-> Ok(<<>>), openPRs |-> Ok(<<>>),
                branches |-> Ok(BranchList(1)), details |-> <<StaleBranch>>],
   security |-> [enabled |-> "204", alerts |-> Ok(<<[severity |-> "high"]>>)]]

\* A build receives either any repositories, each active one with a row in
\* its report, or active repositories only, with any responses
ReportInit ==
  /\ \/ \E repos \in FetchedRepos(MaxRepos) :
          LET n == Len(ActiveRepos(repos)) IN
            \/ input = [builder |-> "home", repos |-> repos]
            \/ \E limit \in DisplayLimits :
                 input = CleanupInput(repos, [i \in 1..n |-> RowResponses.cleanup],
                                      defaultConfig.thresholds.branchCountWarning,
                                      limit)
            \/ input = [builder |-> "security", repos |-> repos,
                        responses |-> [i \in 1..n |-> RowResponses.security]]
     \/ \E n \in 0..MaxActive :
          LET repos == [i \in 1..n |-> ActiveRepo(i)] IN
            \/ \E responses \in [1..n -> CleanupResponses], w \in BranchWarnings,
                  limit \in DisplayLimits :
                 input = CleanupInput(repos, responses, w, limit)
            \/ \E responses \in [1..n -> SecurityResponses] :
                 input = [builder |-> "security", repos |-> repos,
                          responses |-> responses]
     \/ \E n \in 0..MaxRepos :
          \E responses \in [1..n -> GovernanceResponses] :
            input = [builder |-> "governance",
                     repos |-> [i \in 1..n |-> ActiveRepo(i)],
                     responses |-> responses]
  /\ output = <<>> /\ pager = <<>>
  /\ keyIn = <<>> /\ keyOut = <<>>
  /\ now = StartTime /\ storage = EmptyStorage /\ lastOp = NoOp /\ ops = 0
  /\ saved = [p \in CacheOrgs \X CacheTypes |-> NoSave]
  /\ apiService = FALSE /\ selectedOrg = "" /\ activeTab = "home"
  /\ comp = <<>> /\ builds = <<>>

reportFrame == <<input, pager, keyIn, keyOut, now, lastOp, saved, ops, appVars>>

\* The end of a build made for organisation acme: a build that reached the
\* end of its try block saves its result with the configured TTL; setItem is
\* the outcome of localStorage.setItem
Ended(dataType, built, config, setItem) ==
  /\ output = <<>>
  /\ output' = [k \in DOMAIN built \cup {"setItem"} |->
                  IF k = "setItem" THEN setItem ELSE built[k]]
  /\ storage' = IF built.pc = "done"
                  THEN saveToCache(storage, "acme", dataType, built.result,
                                   config.cache.ttlHours, now, setItem)
                  ELSE storage
  /\ UNCHANGED reportFrame

\* Home: the overview is computed from the repositories fetched and saved
BuildHome(setItem) ==
  /\ input.builder = "home"
  /\ Ended("home", [pc |-> "done",
                    result |-> HomeResult([login |-> "acme"], input.repos, Members)],
           getConfig(storage), setItem)

\* CleanupNeeded: the build from the fetched repositories to its end
BuildCleanup(setItem) ==
  /\ input.builder = "cleanup"
  /\ Ended("cleanup",
           CleanupBuild(input.repos, input.responses, input.config, now),
           input.config, setItem)

\* Security: the build from the fetched repositories to its end
BuildSecurity(setItem) ==
  /\ input.builder = "security"
  /\ Ended("security", SecurityBuild(input.repos, input.responses),
           getConfig(storage), setItem)

\* GovernanceRepo: the build from the fetched repositories to its end
BuildGovernance(setItem) ==
  /\ input.builder = "governance"
  /\ Ended("governance-repo", GovernanceBuild(input.repos, input.responses),
           getConfig(storage), setItem)

ReportNext ==
  \/ \E setItem \in SaveOutcomes : BuildHome(setItem)
  \/ \E setItem \in SaveOutcomes : BuildCleanup(setItem)
  \/ \E setItem \in SaveOutcomes : BuildSecurity(setItem)
  \/ \E setItem \in SaveOutcomes : BuildGovernance(setItem)

SpecReport == ReportInit /\ [][ReportNext]_vars

(***************************************************************************)
(* The paginated getters of the Remote Client (SpecPages)                   *)
(***************************************************************************)
\* per_page of every paginated request
PER_PAGE == 100

\* getOrgRepositories awaits its requests outside any try block; the getters
\* of the sub-resources of a repository catch the error of a request
Getters == {"getOrgRepositories", "getRepoBranches", "getOpenPullRequests",
            "getRepoTeams", "getRepoDirectCollaborators"}
CatchesErrors(getter) == getter # "getOrgRepositories"

\* The n items page p of a collection holds
PageOf(p, n) == [k \in 1..n |-> (p - 1) * PER_PAGE + k]

\* A page comes back empty, with one item, one short of full or full; -1
\* stands for a request that fails
PageLengths == {0, 1, PER_PAGE - 1, PER_PAGE}
RequestFails == -1

\* The server: the answers to the requests of pages 1..MaxPages, and whether
\* every later page is full (the collection has no end) or empty
ServerOf(shape, beyond) ==
  [pages |-> [p \in 1..MaxPages |->
                IF shape[p] = RequestFails THEN Failure(500)
                ELSE Ok(PageOf(p, shape[p]))],
   beyond |-> beyond]

\* this.get(endpoint, {per_page: 100, page}): the answer of the server
get(server, page) ==
  IF page <= Len(server.pages) THEN server.pages[page]
  ELSE IF server.beyond = "full" THEN Ok(PageOf(page, PER_PAGE))
  ELSE Ok(<<>>)

\* Mutant of HasMore: the loop goes on until a page is empty
HasMore_NonEmpty(items) == Len(items) > 0

\* hasMore = items.length === 100
HasMore(items) == Len(items) = PER_PAGE

PagesInit ==
  /\ \E getter \in Getters, shape \in [1..MaxPages -> PageLengths \cup {RequestFails}],
        beyond \in {"empty", "full"} :
       pager = [getter |-> getter, server |-> ServerOf(shape, beyond),
                page |-> 1, all |-> <<>>, hasMore |-> TRUE, pc |-> "loop",
                requested |-> <<>>]
  /\ input = <<>> /\ output = <<>>
  /\ keyIn = <<>> /\ keyOut = <<>>
  /\ now = 0 /\ storage = EmptyStorage /\ lastOp = NoOp /\ ops = 0
  /\ saved = [p \in CacheOrgs \X CacheTypes |-> NoSave]
  /\ apiService = FALSE /\ selectedOrg = "" /\ activeTab = "home"
  /\ comp = <<>> /\ builds = <<>>

pagesFrame == <<input, output, keyIn, keyOut, now, storage, lastOp, saved, ops, appVars>>

\* One pass of while (hasMore): the request of the page, then either the
\* page is appended and the next page is due, or the error of the request
\* ends the loop (caught) or leaves the getter (not caught)
RequestPage ==
  /\ pager.pc = "loop" /\ pager.hasMore
  /\ pager.page <= MaxPages + 1
  /\ LET response == get(pager.server, pager.page)
         asked == [pager EXCEPT !.requested = Append(@, pager.page)]
     IN pager' =
          IF response.ok
            THEN [asked EXCEPT !.all = @ \o response.body,
                               !.hasMore = HasMore(response.body),
                               !.page = @ + 1]
          ELSE IF CatchesErrors(pager.getter)
            THEN [asked EXCEPT !.hasMore = FALSE]
          ELSE [asked EXCEPT !.pc = "thrown"]
  /\ UNCHANGED pagesFrame

\* return all, once the loop has ended
ReturnAll ==
  /\ pager.pc = "loop" /\ ~pager.hasMore
  /\ pager' = [pager EXCEPT !.pc = "returned"]
  /\ UNCHANGED pagesFrame

PagesNext ==
  \/ RequestPage
  \/ ReturnAll

SpecPages == PagesInit /\ [][PagesNext]_vars

\* A getter that is running takes its next step
SpecPagesLive == SpecPages /\ WF_vars(PagesNext)

(***************************************************************************)
(* Calls of utils/config.ts (SpecConfig)                                    *)
(***************************************************************************)
\* getDefaultConfig
getDefaultConfig == defaultConfig

\* The dot-notation paths Settings passes to updateConfigValue, among them one
\* outside the defaults of the model, and the numbers it passes
ConfigPaths == {<<"thresholds", "staleBranchDays">>, <<"thresholds", "branchCountWarning">>,
                <<"cache", "ttlHours">>, <<"billing", "pricePerUserMonth">>}
ConfigValues == {0, 7}

NoValues == [p \in {} |-> 0]

\* The calls made so far: lastOp holds the last one, the storage before it,
\* and, for the properties, the value of each path passed to
\* updateConfigValue since the last reset (requested), and of each path
\* whose settings were written (accepted)
ConfigInit ==
  /\ storage \in {EmptyStorage,
                  SetItem(EmptyStorage, getCacheKey("acme", "cleanup"),
                          JSONstringify(CacheObject(CleanupPayload, 24, 0)))}
  /\ lastOp = [op |-> "none", before |-> storage,
               requested |-> NoValues, accepted |-> NoValues]
  /\ ops = 0 /\ now = 0
  /\ saved = [p \in CacheOrgs \X CacheTypes |-> NoSave]
  /\ keyIn = <<>> /\ keyOut = <<>> /\ input = <<>> /\ output = <<>> /\ pager = <<>>
  /\ apiService = FALSE /\ selectedOrg = "" /\ activeTab = "home"
  /\ comp = <<>> /\ builds = <<>>

configFrame == <<now, saved, keyIn, keyOut, input, output, pager, appVars>>

With(values, path, value) ==
  [p \in DOMAIN values \cup {path} |-> IF p = path THEN value ELSE values[p]]

CallUpdateConfigValue(path, value, setItem) ==
  /\ ops < MaxCalls
  /\ storage' = updateConfigValue(storage, path, value, setItem)
  /\ lastOp' = [op |-> "updateConfigValue", before |-> storage, setItem |-> setItem,
                requested |-> With(lastOp.requested, path, value),
                accepted |-> IF setItem = "ok"
                               THEN With(lastOp.accepted, path, value)
                               ELSE lastOp.accepted]
  /\ ops' = ops + 1
  /\ UNCHANGED configFrame

CallResetToDefaults ==
  /\ ops < MaxCalls
  /\ storage' = resetToDefaults(storage)
  /\ lastOp' = [op |-> "resetToDefaults", before |-> storage,
                requested |-> NoValues, accepted |-> NoValues]
  /\ ops' = ops + 1
  /\ UNCHANGED configFrame

ConfigNext ==
  \/ \E path \in ConfigPaths, value \in ConfigValues, setItem \in SaveOutcomes :
       CallUpdateConfigValue(path, value, setItem)
  \/ CallResetToDefaults

SpecConfig == ConfigInit /\ [][ConfigNext]_vars

(***************************************************************************)
(* Claims about the clearing calls (SpecCache)                             *)
(***************************************************************************)
\* This step is the cache call named op
Calls(op) == ops' = ops + 1 /\ lastOp'.op = op

\* C11: clearOrgCaches(org) removes the entry of every (org, reportType) and
\* leaves the entry of every (other organisation, reportType) as it was.
C11_ClearOrgRemovesOnlyItsOrg ==
  [][Calls("clearOrgCaches") =>
       \A o \in CacheOrgs, ty \in CacheTypes :
         IF o = lastOp'.org
           THEN getCacheKey(o, ty) \notin DOMAIN storage'
           ELSE GetItem(storage', getCacheKey(o, ty)) =
                GetItem(storage, getCacheKey(o, ty))]_vars

\* C12: clearExpiredCaches removes every cache entry with now > expiresAt,
\* and leaves in place every cache entry with now <= expiresAt and the
\* stored user settings.
C12_SweepRemovesExpiredOnly ==
  [][Calls("clearExpiredCaches") =>
       /\ \A o \in CacheOrgs, ty \in CacheTypes :
            LET key == getCacheKey(o, ty)
                item == GetItem(storage, key)
            IN item.kind = "json" =>
                 IF now > item.doc.expiresAt
                   THEN key \notin DOMAIN storage'
                   ELSE GetItem(storage', key) = item
       /\ GetItem(storage', STORAGE_KEY) = GetItem(storage, STORAGE_KEY)
       /\ DOMAIN storage' \subseteq DOMAIN storage]_vars
C12_Witness ==
  /\ lastOp.op = "clearExpiredCaches"
  /\ STORAGE_KEY \in DOMAIN lastOp.before
  /\ STORAGE_KEY \in DOMAIN storage
  /\ \E key \in DOMAIN lastOp.before \ {STORAGE_KEY} :
       /\ lastOp.before[key].kind = "json"
       /\ lastOp.at > lastOp.before[key].doc.expiresAt
       /\ key \notin DOMAIN storage
  /\ \E key \in DOMAIN lastOp.before \ {STORAGE_KEY} :
       /\ lastOp.before[key].kind = "json"
       /\ lastOp.at <= lastOp.before[key].doc.expiresAt
       /\ key \in DOMAIN storage

(***************************************************************************)
(* Claims about the builders (SpecReport)                                  *)
(***************************************************************************)
\* The repositories of a list with archived = false and fork = false
NotArchivedNotFork(repos) ==
  SelectSeq(repos, LAMBDA r : r.archived = FALSE /\ r.fork = FALSE)

\* The i-th of the repositories of the build that are neither archived nor
\* forks, the one the i-th responses belong to
Repo(i) == NotArchivedNotFork(input.repos)[i]
Repos == 1..Len(NotArchivedNotFork(input.repos))
Built(builder) == output # <<>> /\ input.builder = builder /\ output.pc = "done"
NamesIn(rows, field) == {rows[j][field] : j \in 1..Len(rows)}

\* C13: whatever the top-level fetch returned, a builder processes exactly
\* the repositories that are neither archived nor forks: every row of the
\* cleanup and security reports names one of those, each of those is named
\* when its responses make a row, and the language and topic counts of the
\* overview are the counts over exactly those.
C13_OnlyActiveReposCount ==
  LET active == NotArchivedNotFork(input.repos)
      names == NamesIn(active, "name")
      ofActive == HomeResult([login |-> "acme"], active, Members)
      AllRows(kind) == \A i \in Repos : input.responses[i] = RowResponses[kind]
  IN /\ Built("home") =>
          /\ output.result.topLanguages = ofActive.topLanguages
          /\ output.result.topTopics = ofActive.topTopics
     /\ Built("cleanup") =>
          /\ NamesIn(output.result.staleBranches, "repoName") \subseteq names
          /\ NamesIn(output.result.inactiveRepos, "name") \subseteq names
          /\ NamesIn(output.result.oldPRs, "repoName") \subseteq names
          /\ AllRows("cleanup") =>
               NamesIn(output.result.staleBranches, "repoName") = names
     /\ Built("security") =>
          /\ NamesIn(output.result.reposWithAlerts, "name") \subseteq names
          /\ NamesIn(output.result.dependabotDisabledRepos, "name") \subseteq names
          /\ AllRows("security") =>
               NamesIn(output.result.reposWithAlerts, "name") = names

\* The number of non-default branches the branch list of repository i came
\* back with, the rows of the stale-branch list that name the repository,
\* and the getBranchDetails calls made for it
BranchCountOf(i) ==
  LET response == input.responses[i].branches
  IN IF response.ok
       THEN Cardinality({j \in 1..Len(response.body) :
                           response.body[j].name # Repo(i).default_branch})
       ELSE 0
StaleRowsOf(i) ==
  {j \in 1..Len(output.result.staleBranches) :
     output.result.staleBranches[j].repoName = Repo(i).name}
WarningRowsOf(i) ==
  {j \in StaleRowsOf(i) : output.result.staleBranches[j].isWarning}
DetailCallsOf(i) ==
  {j \in 1..Len(output.detailCalls) : output.detailCalls[j][1] = Repo(i).name}
CleanupBuilt == Built("cleanup")

\* C14: in a cleanup build, a repository with more non-default branches than
\* branchCountWarning has exactly one row in the stale-branch list, a warning
\* row, and no getBranchDetails call is made for it; a repository with at
\* most branchCountWarning non-default branches has no warning row.
C14_BranchVolumeGuard ==
  CleanupBuilt =>
    \A i \in Repos :
      IF BranchCountOf(i) > input.config.thresholds.branchCountWarning
        THEN /\ Cardinality(WarningRowsOf(i)) = 1
             /\ StaleRowsOf(i) = WarningRowsOf(i)
             /\ DetailCallsOf(i) = {}
        ELSE WarningRowsOf(i) = {}
C14_Witness ==
  /\ CleanupBuilt
  /\ \E i, j \in Repos :
       /\ BranchCountOf(i) = input.config.thresholds.branchCountWarning + 1
       /\ Cardinality(WarningRowsOf(i)) = 1 /\ DetailCallsOf(i) = {}
       /\ BranchCountOf(j) = input.config.thresholds.branchCountWarning
       /\ WarningRowsOf(j) = {} /\ StaleRowsOf(j) # {}
       /\ Cardinality(DetailCallsOf(j)) = BranchCountOf(j)

\* The stale-branch list of a cleanup build, and the number of stale branches
\* among the details fetched for repository i
StaleList == output.result.staleBranches
StaleCountOf(i) ==
  Cardinality({j \in 1..BranchCountOf(i) : input.responses[i].details[j] = StaleBranch})

\* C17: in the stale-branch list every warning row precedes every detailed
\* row, warning rows are in descending order of branch count and detailed
\* rows in descending order of stale-branch count.
C17_WarningsFirstThenByCount ==
  CleanupBuilt =>
    \A i, j \in 1..Len(StaleList) :
      i < j =>
        /\ StaleList[j].isWarning => StaleList[i].isWarning
        /\ (StaleList[i].isWarning /\ StaleList[j].isWarning)
             => StaleList[i].branchCount >= StaleList[j].branchCount
        /\ (~StaleList[i].isWarning /\ ~StaleList[j].isWarning)
             => StaleList[i].staleBranchCount >= StaleList[j].staleBranchCount
C17_Witness ==
  /\ CleanupBuilt
  /\ Repos = 1..3 /\ Len(StaleList) = 3
  /\ StaleCountOf(1) = 1 /\ StaleCountOf(2) = 2 /\ WarningRowsOf(3) # {}
  /\ StaleList[1].repoName = Repo(3).name
  /\ StaleList[2].repoName = Repo(2).name
  /\ StaleList[3].repoName = Repo(1).name

\* The repositories of a cleanup build classified as having stale branches
StaleClassified ==
  {i \in Repos :
     \/ BranchCountOf(i) > input.config.thresholds.branchCountWarning
     \/ StaleCountOf(i) > 0}
Smaller(a, b) == IF a < b THEN a ELSE b

\* C18: each list of the cleanup report holds the first min(total, display
\* limit) rows, where the display limit is the one configured for the list,
\* and the total recorded with the stale-branch list is the number of
\* repositories classified as having stale branches.
C18_ListsCutToDisplayLimit ==
  CleanupBuilt =>
    LET limits == input.config.displayLimits
    IN /\ output.result.totalStaleBranchRepos = Cardinality(StaleClassified)
       /\ Len(StaleList) =
            Smaller(output.result.totalStaleBranchRepos, limits.maxStaleBranchRepos)
       /\ Len(output.result.inactiveRepos) =
            Smaller(output.result.totalInactive, limits.maxInactiveRepos)
       /\ Len(output.result.oldPRs) =
            Smaller(output.result.totalOldPRRepos, limits.maxOldPRRepos)

\* The teams and the direct collaborators the requests for repository i came
\* back with (none from a failed request), and whether a list names it
TeamsOf(i) ==
  IF input.responses[i].teams.ok THEN input.responses[i].teams.body ELSE <<>>
CollaboratorsOf(i) ==
  IF input.responses[i].collaborators.ok
    THEN input.responses[i].collaborators.body ELSE <<>>
AdminTeamsOf(i) == {j \in 1..Len(TeamsOf(i)) : TeamsOf(i)[j].permission = "admin"}
AdminCollaboratorsOf(i) ==
  {j \in 1..Len(CollaboratorsOf(i)) :
     /\ "permissions" \in DOMAIN CollaboratorsOf(i)[j]
     /\ CollaboratorsOf(i)[j].permissions.admin = TRUE}
Lists(rows, i) == Repo(i).name \in NamesIn(rows, "name")
Governed == Built("governance")

\* C15: an active repository is in the no-admin list exactly when the teams
\* fetched for it contain no team with permission admin and the direct
\* collaborators fetched for it contain none with admin = true, whatever
\* other teams and collaborators it has.
C15_NoAdminIffNoExplicitAdmin ==
  Governed =>
    \A i \in Repos :
      Lists(output.result.noAdminRepos, i) <=>
        (AdminTeamsOf(i) = {} /\ AdminCollaboratorsOf(i) = {})
C15_Witness ==
  /\ Governed
  /\ \E i, j \in Repos :
       /\ Len(TeamsOf(i)) > 0 /\ Len(CollaboratorsOf(i)) > 0
       /\ AdminTeamsOf(i) = {} /\ AdminCollaboratorsOf(i) = {}
       /\ Lists(output.result.noAdminRepos, i)
       /\ Cardinality(AdminTeamsOf(j)) = 1 /\ AdminCollaboratorsOf(j) = {}
       /\ ~Lists(output.result.noAdminRepos, j)

\* C19: an active repository is in the unprotected list only if the
\* branch-protection request for its default branch came back with 404.
C19_UnprotectedOnlyOnNotFound ==
  Governed =>
    \A i \in Repos :
      Lists(output.result.unprotectedRepos, i) =>
        /\ ~input.responses[i].protection.ok
        /\ input.responses[i].protection.status = 404

\* Row a does not come after row b in the order by critical, high, medium,
\* low and then total count, each descending
SeverityKey(row) == <<row.critical, row.high, row.medium, row.low, row.totalAlerts>>
NotAfter(a, b) ==
  \A k \in 1..5 :
    (\A m \in 1..(k - 1) : SeverityKey(a)[m] = SeverityKey(b)[m])
      => SeverityKey(a)[k] >= SeverityKey(b)[k]
SecurityBuilt == Built("security")

\* C16: the list of repositories with alerts is in the order by critical
\* count, then high, then medium, then low, then total count, each descending.
C16_AlertsBySeverityThenTotal ==
  SecurityBuilt =>
    \A i, j \in 1..Len(output.result.reposWithAlerts) :
      i < j => NotAfter(output.result.reposWithAlerts[i],
                        output.result.reposWithAlerts[j])

\* The sub-fetches of a repository the claim names, and the responses with
\* each failed one replaced by the response its neutral default stands for:
\* an empty list, and for the details of a branch a branch that is not stale
SubFetches == {"lastPR", "branches", "openPRs", "teams", "collaborators", "alerts"}
Neutral(responses) ==
  [k \in DOMAIN responses |->
     IF k = "details"
       THEN [j \in DOMAIN responses.details |->
               IF responses.details[j].ok THEN responses.details[j] ELSE FreshBranch]
     ELSE IF k \in SubFetches /\ ~responses[k].ok THEN Ok(<<>>)
     ELSE responses[k]]
FailedIn(i) ==
  \/ \E k \in DOMAIN input.responses[i] \cap SubFetches : ~input.responses[i][k].ok
  \/ /\ "details" \in DOMAIN input.responses[i]
     /\ \E j \in DOMAIN input.responses[i].details : ~input.responses[i].details[j].ok
NeutralBuild ==
  LET responses == [i \in DOMAIN input.responses |-> Neutral(input.responses[i])]
  IN CASE input.builder = "cleanup" ->
            CleanupBuild(input.repos, responses, input.config, now)
       [] input.builder = "security" -> SecurityBuild(input.repos, responses)
       [] input.builder = "governance" -> GovernanceBuild(input.repos, responses)
DataTypeOf ==
  [cleanup |-> "cleanup", security |-> "security", governance |-> "governance-repo"]

AnswerTo(p) == get(pager.server, p)
ShortPage(p) == AnswerTo(p).ok /\ Len(AnswerTo(p).body) < PER_PAGE
RECURSIVE JoinedPages(_)
JoinedPages(n) == IF n = 0 THEN <<>> ELSE JoinedPages(n - 1) \o AnswerTo(n).body
Running(getter) == pager.getter = getter
Requested == Len(pager.requested)

\* C21: getOrgRepositories requests pages 1, 2, 3, ... in order, each with
\* per_page 100; it requests no page after a page of fewer than 100 items;
\* when it returns, the last page requested is such a short page and the
\* value returned is the pages requested joined in page order; and if the
\* server answers some page with a short page, the getter ends.
C21_PagesInOrderUntilShort ==
  /\ [](Running("getOrgRepositories") =>
          /\ pager.requested = [i \in 1..Requested |-> i]
          /\ \A i \in 1..(Requested - 1) : ~ShortPage(i)
          /\ pager.pc = "returned" =>
               /\ Requested > 0 /\ ShortPage(Requested)
               /\ pager.all = JoinedPages(Requested))
  /\ (Running("getOrgRepositories") /\ \E p \in 1..(MaxPages + 1) : ShortPage(p))
       ~> (pager.pc # "loop")
C21_Witness ==
  /\ Running("getOrgRepositories") /\ pager.pc = "returned"
  /\ pager.requested = <<1, 2, 3>>
  /\ Len(pager.all) = 3 * PER_PAGE - 1
  /\ pager.all[PER_PAGE + 1] = PageOf(2, 1)[1]

\* A returned getter has fetched the whole collection: every page up to the
\* first short one, none of them failed
FullyPaginated ==
  /\ Requested > 0 /\ ShortPage(Requested)
  /\ \A p \in 1..(Requested - 1) : AnswerTo(p).ok
  /\ pager.all = JoinedPages(Requested)
SomeRequestFailed == \E p \in 1..Requested : ~AnswerTo(p).ok

\* C22: a paginated getter of a sub-resource (getRepoBranches,
\* getOpenPullRequests, getRepoTeams, getRepoDirectCollaborators) never
\* throws, and what it returns is either the fully paginated collection or,
\* when a page request failed, the empty list.
C22_FullCollectionOrEmpty ==
  (pager.getter \in Getters \ {"getOrgRepositories"}) =>
    /\ pager.pc # "thrown"
    /\ pager.pc = "returned" =>
         IF SomeRequestFailed THEN pager.all = <<>> ELSE FullyPaginated

(***************************************************************************)
(* Claims about what starts a build and what a tab shows (Spec, SpecSwitch) *)
(***************************************************************************)
\* C24: a build that is not a refresh starts only from the effect of a render
\* made by new props from the App (the tab became visible, the service or the
\* organisation was set), never from the effect of a render made by a state
\* update of the tab itself (loading, progress, error): so while the tab
\* stays active with the same service and organisation, no second build
\* starts while one is in flight or after one has failed.
C24_BuildsOnlyOnVisibilityOrRefresh ==
  [][\A i \in BuildIds :
       (Starts(i) /\ ~builds'[i].skipCache)
         => comp[builds'[i].tab].cause = "props"]_vars

\* Build i is superseded: it was started for another organisation than the
\* one now selected, and a build of the same tab for the selected
\* organisation has been started
Superseded(i) ==
  /\ builds[i].org # selectedOrg
  /\ \E j \in 1..Len(builds) :
       /\ j # i /\ builds[j].tab = builds[i].tab /\ builds[j].org = selectedOrg

\* C23: when a superseded build completes, its result is discarded: the step
\* leaves the report shown by the tab, and the organisation it belongs to,
\* as they were.
C23_SupersededResultDiscarded ==
  [][\A i \in BuildIds :
       (Completes(i) /\ Superseded(i))
         => /\ comp'[builds[i].tab].view = comp[builds[i].tab].view
            /\ comp'[builds[i].tab].viewOrg = comp[builds[i].tab].viewOrg]_vars

\* C28: an active tab that shows a loaded report (not loading, no error)
\* shows a report built or read from the cache for the organisation now
\* selected.
C28_ReportIsOfSelectedOrg ==
  \A tab \in Tabs :
    ( /\ activeTab = tab /\ apiService /\ selectedOrg # ""
      /\ comp[tab].hasLoaded /\ ~comp[tab].loading /\ comp[tab].error = JsNull )
      => comp[tab].viewOrg = selectedOrg

(***************************************************************************)
(* Claims about the configuration (SpecConfig)                              *)
(***************************************************************************)
NoOverridesStored == getUserSettings(storage) = EmptyObject

\* C25: whenever no user overrides are stored (initially, or after
\* resetToDefaults following any sequence of updateConfigValue calls),
\* getConfig() returns a value equal to getDefaultConfig().
C25_NoOverridesGivesDefaults ==
  /\ NoOverridesStored => getConfig(storage) = getDefaultConfig
  /\ lastOp.op \in {"none", "resetToDefaults"} => NoOverridesStored

\* C25 witness: resetToDefaults was called while the configuration differed
\* from the defaults, and the configuration is the defaults again.
C25_Witness ==
  /\ lastOp.op = "resetToDefaults"
  /\ getConfig(lastOp.before) # getDefaultConfig
  /\ getConfig(storage) = getDefaultConfig

\* The value a configuration holds at a two-key path, -1 where it holds none
At(config, path) ==
  IF path[1] \in DOMAIN config /\ path[2] \in DOMAIN config[path[1]]
    THEN config[path[1]][path[2]]
    ELSE -1

\* The settings (section, key) of a configuration
PathsOf(config) == UNION {{<<k, j>> : j \in DOMAIN config[k]} : k \in DOMAIN config}

\* The configuration is the defaults overlaid with exactly these values
IsOverlay(config, values) ==
  /\ PathsOf(config) = PathsOf(getDefaultConfig) \cup DOMAIN values
  /\ \A p \in PathsOf(config) :
       At(config, p) = IF p \in DOMAIN values THEN values[p]
                                             ELSE At(getDefaultConfig, p)

\* C29 as stated: after any sequence of updateConfigValue and resetToDefaults
\* calls, getConfig() equals the defaults overlaid with exactly the values
\* set by updateConfigValue since the last reset (the last value at each
\* updated path, the default everywhere else).
C29_OverlayOfValuesSet == IsOverlay(getConfig(storage), lastOp.requested)

\* C29 amended: getConfig() equals the defaults overlaid with exactly the
\* values of the updateConfigValue calls since the last reset whose write
\* the storage accepted; a call whose write fails changes nothing.
C29_OverlayOfValuesSaved ==
  /\ IsOverlay(getConfig(storage), lastOp.accepted)
  /\ lastOp.op = "updateConfigValue" /\ lastOp.setItem # "ok"
       => storage = lastOp.before

\* C29 witness: two paths hold saved values, one of them set twice or the
\* other in another section, and every other setting keeps its default.
C29_Witness ==
  /\ lastOp.op = "updateConfigValue"
  /\ Cardinality(DOMAIN lastOp.accepted) >= 2
  /\ \E p \in DOMAIN lastOp.accepted : At(getConfig(storage), p) # At(getDefaultConfig, p)
  /\ At(getConfig(storage), <<"thresholds", "oldPRDays">>) = 60
  /\ getConfig(lastOp.before) # getConfig(storage)

(***************************************************************************)
(* Claims about the counts of the reports (SpecReport)                      *)
(***************************************************************************)
\* The branches of repository i that are not its default branch, in the
\* order of the branch list, and those of them whose details came back with
\* a latest commit date earlier than now minus staleBranchDays
OtherBranchesOf(i) ==
  LET response == input.responses[i].branches
  IN IF response.ok
       THEN SelectSeq(response.body, LAMBDA b : b.name # Repo(i).default_branch)
       ELSE <<>>
StaleCutoff == now - input.config.thresholds.staleBranchDays * SecondsPerDay
StaleBranchesOf(i) ==
  {j \in 1..Len(OtherBranchesOf(i)) :
     LET details == input.responses[i].details[j]
     IN details.ok /\ details.body.commit.date < StaleCutoff}

\* C26: for an active repository with at most branchCountWarning non-default
\* branches, the stale-branch count is the number of its non-default
\* branches whose latest commit date is earlier than now minus
\* staleBranchDays; details are never fetched for the default branch, and a
\* repository whose count is 0 has no row.
C26_StaleBranchCount ==
  CleanupBuilt =>
    \A i \in Repos :
      Len(OtherBranchesOf(i)) <= input.config.thresholds.branchCountWarning =>
        /\ \A j \in StaleRowsOf(i) :
             StaleList[j].staleBranchCount = Cardinality(StaleBranchesOf(i))
        /\ Cardinality(StaleRowsOf(i)) = IF StaleBranchesOf(i) = {} THEN 0 ELSE 1
        /\ \A j \in DetailCallsOf(i) :
             output.detailCalls[j][2] # Repo(i).default_branch

\* C26 witness: of three non-default branches, one stale, one last committed
\* to exactly at the cutoff and one fresh, one is counted; a second
\* repository whose only branch other than the default is at the cutoff has
\* no row.
C26_Witness ==
  /\ CleanupBuilt
  /\ \E i, k \in Repos :
       /\ input.responses[i].details = <<StaleBranch, EdgeBranch, FreshBranch>>
       /\ Len(input.responses[i].branches.body) = 4
       /\ \E j \in StaleRowsOf(i) : StaleList[j].staleBranchCount = 1
       /\ input.responses[k].details = <<EdgeBranch>>
       /\ input.responses[k].branches.ok
       /\ StaleRowsOf(k) = {}

\* The answer to the vulnerability-alerts status check of repository i, the
\* repositories listed as Dependabot-disabled, and those whose open alerts
\* were requested
StatusOf(i) == input.responses[i].enabled
ListedDisabled ==
  {i \in Repos : Repo(i).name \in NamesIn(output.result.dependabotDisabledRepos, "name")}
AlertsFetched ==
  {i \in Repos : \E j \in 1..Len(output.alertCalls) : output.alertCalls[j] = Repo(i).name}

\* C27 as stated: the security build lists a repository as
\* Dependabot-disabled only when the status check answered 404; after any
\* other failure of the check (another error status, or no answer at all)
\* the repository is not listed and its open alerts are fetched.
C27_DisabledOnlyOn404 ==
  SecurityBuilt =>
    \A i \in Repos :
      /\ i \in ListedDisabled => StatusOf(i) = "404"
      /\ StatusOf(i) \notin {"204", "404"} =>
           i \notin ListedDisabled /\ i \in AlertsFetched

\* What the build does: a repository is listed as disabled exactly when the
\* check was answered with a status other than 204, and its alerts are
\* fetched exactly when the answer was 204 or there was no answer.
C27_DisabledUnless204 ==
  SecurityBuilt =>
    \A i \in Repos :
      /\ i \in ListedDisabled <=> StatusOf(i) \notin {"204", NetworkError}
      /\ i \in AlertsFetched <=> i \notin ListedDisabled
C27_Witness ==
  /\ SecurityBuilt
  /\ \E i, j, k \in Repos :
       /\ StatusOf(i) = "500" /\ i \in ListedDisabled /\ i \notin AlertsFetched
       /\ StatusOf(j) = NetworkError /\ j \in AlertsFetched
       /\ StatusOf(k) = "404" /\ k \in ListedDisabled

\* The fetched repositories of a home build, by index, and its breakdown
Fetched == 1..Len(input.repos)
Breakdown == output.result.repoBreakdown
Forks == {i \in Fetched : input.repos[i].fork}
Archived == {i \in Fetched : input.repos[i].archived}
Private == {i \in Fetched : input.repos[i].private}

\* C30: in the overview every fetched repository is counted in exactly one
\* of the six buckets: each counter is the number of repositories of its
\* class (a fork is forked whatever its visibility, private and public are
\* the others), the six counters sum to total, and total is the number of
\* repositories the top-level fetch returned.
C30_BreakdownPartitionsRepos ==
  Built("home") =>
    /\ Breakdown.forkedActive = Cardinality(Forks \ Archived)
    /\ Breakdown.forkedArchived = Cardinality(Forks \cap Archived)
    /\ Breakdown.privateActive = Cardinality((Private \ Forks) \ Archived)
    /\ Breakdown.privateArchived = Cardinality((Private \ Forks) \cap Archived)
    /\ Breakdown.publicActive = Cardinality(((Fetched \ Private) \ Forks) \ Archived)
    /\ Breakdown.publicArchived = Cardinality(((Fetched \ Private) \ Forks) \cap Archived)
    /\ Breakdown.publicActive + Breakdown.publicArchived + Breakdown.privateActive
         + Breakdown.privateArchived + Breakdown.forkedActive + Breakdown.forkedArchived
         = Breakdown.total
    /\ Breakdown.total = Len(input.repos)

\* C30 witness: a private fork and a private archived repository were
\* fetched; one is counted as forked, the other as private archived.
C30_Witness ==
  /\ Built("home")
  /\ Len(input.repos) = 2
  /\ Cardinality(Forks \cap Private) = 1 /\ Cardinality(Forks) = 1
  /\ Cardinality(Private \cap Archived) = 1 /\ Forks \cap Archived = {}
  /\ Breakdown.forkedActive = 1 /\ Breakdown.privateArchived = 1
  /\ Breakdown.total = 2

=============================================================================
